---- MODULE Spec2Model ----
(***************************************************************************)
(* Rolodex: the action-dispatch endpoint (netlify/functions/api.ts), its   *)
(* identity verifier, abuse guard, session-scoped transaction runner,      *)
(* contact repository, comment lifecycle and audit recorder, together with *)
(* the row-level-security policies of the schema the handlers run against, *)
(* and the web client's request function (apps/web/src/lib/apiClient.ts).   *)
(***************************************************************************)
EXTENDS Integers, Sequences, FiniteSets, TLC

VARIABLES
    env,            \* process configuration (process.env, pool, RLS enforcement of the DB role)
    rateLimitStore, \* Map<key, {count, resetAt}>
    accepted,       \* history: per key and time, the requests rateLimit let through
    now,            \* Date.now()
    db,             \* committed database state
    pc,             \* position of the request being served
    req,            \* the HTTP event being served
    ctx,            \* AuthedContext produced by verifyToken
    client,         \* the pooled connection: held or not, session variables
    tx,             \* the transaction's working copy of the database
    outcome,        \* what the try block of handler/withRlsContext produced so far
    trace,          \* the statements withRlsContext issued for this request, in order
    resp,           \* the response envelope returned
    before,         \* committed database state when the request arrived
    workers,        \* requests served at the same time on connections of their own
    api             \* the web client: its token, its token provider, the call in hand

vars ==
    <<env, rateLimitStore, accepted, now, db, pc, req, ctx, client, tx, outcome, trace, resp,
      before, workers, api>>

----------------------------------------------------------------------------
(* Bounds of the model *)

MaxContacts == 2
MaxComments == 2
RateLimitMax == 2
MaxTime == 3

(* Small universes the inputs are drawn from *)

Orgs == {"o1", "o2"}
Subjects == {"s1", "s2"}
ContactIds == 1..MaxContacts
CommentIds == 1..MaxComments
NULL == "null"
NoRow == [absent |-> TRUE]
NoCtx == [userId |-> "", role |-> "", orgId |-> ""]
NoResp == [status |-> 0, code |-> "", ok |-> FALSE]
NoOutcome == [kind |-> "pending"]
NoSession == [sub |-> "", role |-> "", org |-> ""]
RateLimitWindowMs == 2

----------------------------------------------------------------------------
(* Identity Verifier *)

\* a role parser that also reads a roles claim that is a single string
parseRoleOfString(roles) ==
    IF "admin" \in roles.items THEN "admin"
    ELSE IF "creator" \in roles.items THEN "creator"
    ELSE "participant"

\* parseRole: admin if the claim is an array containing "admin", else creator, else participant
parseRole(roles) ==
    LET roleList == IF roles.isArray THEN roles.items ELSE {}
    IN  IF "admin" \in roleList THEN "admin"
        ELSE IF "creator" \in roleList THEN "creator"
        ELSE "participant"

\* isUuid on strings: the organization ids of the model are the strings matching the pattern
isUuid(value) == value \in Orgs

\* isUuid on entity ids: positive numbers stand for well-formed UUIDs, 0 for a missing
\* value and negative numbers for malformed text
isUuidId(value) == value > 0

\* getBearerToken: null (kind "none") unless the Authorization header starts with "Bearer "
getBearerToken(event) == event.token

\* jwtVerify: the message the jose library throws for a token it rejects, "" for a good one
jwtVerifyError(token) ==
    CASE token.kind = "badsig"   -> "signature verification failed"
      [] token.kind = "expired"  -> "\"exp\" claim timestamp check failed"
      [] token.kind = "wrongiss" -> "unexpected \"iss\" claim value"
      [] token.kind = "wrongaud" -> "unexpected \"aud\" claim value"
      [] OTHER                   -> ""

Fail(msg) == [ok |-> FALSE, message |-> msg, ctx |-> NoCtx]

\* a verifier that trusts the token's claims without checking signature, expiry, issuer
\* or audience
verifyTokenUnverified(e, event) ==
    LET token == getBearerToken(event)
        org   == IF isUuid(token.org_id) THEN token.org_id
                 ELSE IF isUuid(token.tid) THEN token.tid ELSE ""
    IN  IF token.kind = "none" THEN Fail("Missing bearer token")
        ELSE IF token.sub = "" THEN Fail("Invalid token subject")
        ELSE IF org = "" THEN Fail("Invalid organization context")
        ELSE [ok |-> TRUE, message |-> "",
              ctx |-> [userId |-> token.sub, role |-> parseRole(token.roles), orgId |-> org]]

\* a bypass switch that ignores NODE_ENV
isDevBypassInProduction(e) == e.devFlag

\* NODE_ENV !== "production" && (NETLIFY_DEV === "true" || ALLOW_DEV_AUTH === "true")
isDevBypass(e) == ~e.production /\ e.devFlag

\* String.prototype.trim on the claim values of the model
Trim(s) ==
    CASE s = " o2 " -> "o2"
      [] s = " "    -> ""
      [] OTHER      -> s

\* an organization resolution that prefers the token's claims to the configured default
orgClaimTokenFirst(e, token) ==
    LET defaultOrg == IF e.defaultOrgId # "" /\ isUuid(e.defaultOrgId) THEN e.defaultOrgId ELSE ""
        payloadOrg == IF token.org_id # "" THEN Trim(token.org_id) ELSE ""
        tenantOrg  == IF token.tid # "" THEN Trim(token.tid) ELSE ""
    IN  IF isUuid(payloadOrg) THEN payloadOrg
        ELSE IF isUuid(tenantOrg) THEN tenantOrg
        ELSE defaultOrg

\* defaultOrg || (isUuid(payloadOrg) ? payloadOrg : "") || (isUuid(tenantOrg) ? tenantOrg : "")
orgClaim(e, token) ==
    LET defaultOrg == IF e.defaultOrgId # "" /\ isUuid(e.defaultOrgId) THEN e.defaultOrgId ELSE ""
        payloadOrg == IF token.org_id # "" THEN Trim(token.org_id) ELSE ""
        tenantOrg  == IF token.tid # "" THEN Trim(token.tid) ELSE ""
    IN  IF defaultOrg # "" THEN defaultOrg
        ELSE IF isUuid(payloadOrg) THEN payloadOrg
        ELSE IF isUuid(tenantOrg) THEN tenantOrg
        ELSE ""

verifyToken(e, event) ==
    LET configured  == e.jwks /\ e.azureIssuer /\ e.azureAudience
        token       == getBearerToken(event)
    IN  IF ~configured /\ isDevBypass(e) THEN
            IF e.defaultOrgId = "" \/ ~isUuid(e.defaultOrgId)
            THEN Fail("Invalid organization context")
            ELSE [ok |-> TRUE, message |-> "",
                  ctx |-> [userId |-> e.devUserSub,
                           role |-> parseRole([isArray |-> TRUE, items |-> {e.devUserRole}]),
                           orgId |-> e.defaultOrgId]]
        ELSE IF ~configured THEN Fail("Missing authorization configuration")
        ELSE IF token.kind = "none" THEN Fail("Missing bearer token")
        ELSE IF jwtVerifyError(token) # "" THEN Fail(jwtVerifyError(token))
        ELSE IF token.sub = "" THEN Fail("Invalid token subject")
        ELSE IF orgClaim(e, token) = "" THEN Fail("Invalid organization context")
        ELSE [ok |-> TRUE, message |-> "",
              ctx |-> [userId |-> token.sub, role |-> parseRole(token.roles),
                       orgId |-> orgClaim(e, token)]]

\* a role check that lets every role through
requireRoleAny(c, allowed) == c.role \in {"admin", "creator", "participant"}

\* requireRole: throws "Insufficient role" unless the caller's role is allowed
requireRole(c, allowed) == c.role \in allowed

----------------------------------------------------------------------------
(* Abuse Guard *)

\* the caller key: the x-forwarded-for header, else "local"
rateLimitKey(event) == IF event.xff # "" THEN event.xff ELSE "local"

\* a guard that compares the count with > instead of >=
rateLimitOffByOne(store, e, t, event) ==
    LET key  == rateLimitKey(event)
        item == store[key]
    IN  IF item = NoRow \/ t > item.resetAt
        THEN [store |-> [store EXCEPT ![key] = [count |-> 1, resetAt |-> t + RateLimitWindowMs]],
              ok |-> TRUE]
        ELSE IF item.count > e.rateLimitMax
        THEN [store |-> store, ok |-> FALSE]
        ELSE [store |-> [store EXCEPT ![key] = [count |-> item.count + 1, resetAt |-> item.resetAt]],
              ok |-> TRUE]

\* a limiter whose rejections start the key's window again
rateLimitPenalising(store, e, t, event) ==
    LET key  == rateLimitKey(event)
        item == store[key]
    IN  IF item = NoRow \/ t > item.resetAt
        THEN [store |-> [store EXCEPT ![key] = [count |-> 1, resetAt |-> t + RateLimitWindowMs]],
              ok |-> TRUE]
        ELSE IF item.count >= e.rateLimitMax
        THEN [store |-> [store EXCEPT ![key].resetAt = t + RateLimitWindowMs], ok |-> FALSE]
        ELSE [store |-> [store EXCEPT ![key] = [count |-> item.count + 1, resetAt |-> item.resetAt]],
              ok |-> TRUE]

\* rateLimit: [store |-> the map afterwards, ok |-> FALSE when "Rate limit exceeded" is thrown]
rateLimit(store, e, t, event) ==
    LET key  == rateLimitKey(event)
        item == store[key]
    IN  IF item = NoRow \/ t > item.resetAt
        THEN [store |-> [store EXCEPT ![key] = [count |-> 1, resetAt |-> t + RateLimitWindowMs]],
              ok |-> TRUE]
        ELSE IF item.count >= e.rateLimitMax
        THEN [store |-> store, ok |-> FALSE]
        ELSE [store |-> [store EXCEPT ![key] = [count |-> item.count + 1, resetAt |-> item.resetAt]],
              ok |-> TRUE]

----------------------------------------------------------------------------
(* Error classification of handler's catch block *)

Envelope(status, code) == [status |-> status, code |-> code, ok |-> status < 400]

\* lower.includes("invalid token") || "authorization" || "issuer" || "audience",
\* evaluated on each message this layer or the token library can throw
mentionsAuth(message) ==
    message \in {"Invalid token subject", "Missing authorization configuration"}

classify(err) ==
    IF err.zod THEN Envelope(400, "VALIDATION_ERROR")
    ELSE IF err.message = "Insufficient role" THEN Envelope(403, "FORBIDDEN")
    ELSE IF err.message = "Rate limit exceeded" THEN Envelope(429, "RATE_LIMITED")
    ELSE IF err.message = "SUPABASE_DB_URL is required for strict RLS mode"
         THEN Envelope(500, "CONFIG_ERROR")
    ELSE IF mentionsAuth(err.message) THEN Envelope(401, "UNAUTHORIZED")
    ELSE Envelope(500, "DATABASE_ERROR")

Thrown(msg) == [kind |-> "threw", zod |-> FALSE, message |-> msg]
ZodError == [kind |-> "threw", zod |-> TRUE, message |-> "zod"]

----------------------------------------------------------------------------
(* Row-level security policies of the schema *)

AllRoles == {"admin", "creator", "participant"}

\* the roles each policy admits, per table and command ("any" = no role condition)
PolicyRoles(table, cmd) ==
    CASE table = "users" /\ cmd = "select" -> AllRoles \cup {"any"}
      [] table = "users" -> {"admin"}
      [] table = "audit_log" /\ cmd = "insert" -> AllRoles
      [] table = "audit_log" -> {"admin", "creator"}
      [] table = "contact_comments" /\ cmd \in {"select", "insert"} -> AllRoles
      [] cmd = "select" -> AllRoles
      [] cmd \in {"insert", "update"} -> {"admin", "creator"}
      [] OTHER -> {"admin"}

\* a policy's USING / WITH CHECK expression for a row of organization rowOrg
PolicyHolds(sess, table, cmd, rowOrg) ==
    /\ sess.sub # ""
    /\ sess.org # ""
    /\ (sess.role \in PolicyRoles(table, cmd) \/ "any" \in PolicyRoles(table, cmd))
    /\ rowOrg = sess.org

\* tables have row level security enabled, not forced: it binds unless the
\* connection's database role owns the tables or bypasses RLS
Permits(e, sess, table, cmd, rowOrg) == ~e.rls \/ PolicyHolds(sess, table, cmd, rowOrg)

----------------------------------------------------------------------------
(* Database statements of the repository *)

\* lower(): case folding on the names of the model
Lower(s) ==
    CASE s = "Jordan" -> "jordan"
      [] s = "Price"  -> "price"
      [] s = "Acme"   -> "acme"
      [] s = "LI/JP"  -> "li/jp"
      [] OTHER        -> s

DbError == Thrown("database error")
Result(d, out) == [db |-> d, out |-> out]

\* getActorUserId's select: whether the (subject, organization) row is there
actorFound(e, sess, d, c) ==
    /\ d.users[c.userId] # NoRow
    /\ d.users[c.userId].org = c.orgId
    /\ Permits(e, sess, "users", "select", d.users[c.userId].org)

\* a lazy insert without "on conflict (subject) do update": an existing row of the
\* subject is a unique violation
upsertActorNoConflictClause(e, sess, d, c) ==
    LET row   == d.users[c.userId]
        fresh == [org |-> c.orgId, role |-> c.role]
    IN  IF ~Permits(e, sess, "users", "insert", c.orgId) \/ row # NoRow
        THEN [db |-> d, id |-> NULL, aborted |-> TRUE]
        ELSE [db |-> [d EXCEPT !.users[c.userId] = fresh], id |-> c.userId, aborted |-> FALSE]

\* getActorUserId's insert ... on conflict (subject) do update; a failed statement
\* is caught and yields null, and leaves the transaction aborted (every later
\* statement in it fails)
upsertActor(e, sess, d, c) ==
    LET row   == d.users[c.userId]
        fresh == [org |-> c.orgId, role |-> c.role]
    IN  IF ~Permits(e, sess, "users", "insert", c.orgId)
        THEN [db |-> d, id |-> NULL, aborted |-> TRUE]
        ELSE IF row = NoRow
        THEN [db |-> [d EXCEPT !.users[c.userId] = fresh], id |-> c.userId, aborted |-> FALSE]
        ELSE IF /\ Permits(e, sess, "users", "select", row.org)
                /\ Permits(e, sess, "users", "update", row.org)
                /\ Permits(e, sess, "users", "update", c.orgId)
        THEN [db |-> [d EXCEPT !.users[c.userId] = fresh], id |-> c.userId, aborted |-> FALSE]
        ELSE [db |-> d, id |-> NULL, aborted |-> TRUE]

\* getActorUserId: the (subject, organization) row's id, else the lazy insert
getActorUserId(e, sess, d, c, fault) ==
    IF actorFound(e, sess, d, c) THEN [db |-> d, id |-> c.userId, aborted |-> FALSE]
    ELSE IF fault = "lazyUser" THEN [db |-> d, id |-> NULL, aborted |-> TRUE]
    ELSE upsertActor(e, sess, d, c)

\* an audit recorder that resolves the actor but inserts no entry
writeAuditLogDropped(e, sess, d, c, action, entityType, entityId, fault) ==
    LET a == getActorUserId(e, sess, d, c, fault)
    IN  IF a.aborted \/ fault = "audit" THEN [ok |-> FALSE, db |-> d]
        ELSE [ok |-> TRUE, db |-> a.db]

\* an audit recorder that keeps only the newest entry
writeAuditLogReplacing(e, sess, d, c, action, entityType, entityId, fault) ==
    LET a == getActorUserId(e, sess, d, c, fault)
    IN  IF a.aborted \/ fault = "audit" \/ ~Permits(e, sess, "audit_log", "insert", c.orgId)
        THEN [ok |-> FALSE, db |-> d]
        ELSE [ok |-> TRUE,
              db |-> [a.db EXCEPT !.audit =
                        <<[org |-> c.orgId, actor_user_id |-> a.id, actor_subject |-> c.userId,
                           action |-> action, entity_type |-> entityType, entity_id |-> entityId]>>]]

\* writeAuditLog: resolve the actor, then insert one audit_log row; [ok, db]
writeAuditLog(e, sess, d, c, action, entityType, entityId, fault) ==
    LET a == getActorUserId(e, sess, d, c, fault)
    IN  IF a.aborted \/ fault = "audit" \/ ~Permits(e, sess, "audit_log", "insert", c.orgId)
        THEN [ok |-> FALSE, db |-> d]
        ELSE [ok |-> TRUE,
              db |-> [a.db EXCEPT !.audit = Append(@,
                        [org |-> c.orgId, actor_user_id |-> a.id, actor_subject |-> c.userId,
                         action |-> action, entity_type |-> entityType, entity_id |-> entityId])]]

\* a summary query without "and c.organization_id = $2"
loadContactSummaryAnyOrg(e, sess, d, orgId, id) ==
    IF /\ id \in ContactIds
       /\ d.contacts[id] # NoRow
       /\ Permits(e, sess, "contacts", "select", d.contacts[id].org)
    THEN [found |-> TRUE, id |-> id, row |-> d.contacts[id]]
    ELSE [found |-> FALSE]

\* where c.unique_id = $1 and c.organization_id = $2 limit 1
loadContactSummary(e, sess, d, orgId, id) ==
    IF /\ id \in ContactIds
       /\ d.contacts[id] # NoRow
       /\ d.contacts[id].org = orgId
       /\ Permits(e, sess, "contacts", "select", d.contacts[id].org)
    THEN [found |-> TRUE, id |-> id, row |-> d.contacts[id]]
    ELSE [found |-> FALSE]

\* the (label, value) entries of one child table for a contact, as the select returns them
methodRows(e, sess, table, rows, orgId) ==
    LET keep(r) == r.org = orgId /\ Permits(e, sess, table, "select", r.org)
        kept == SelectSeq(rows, keep)
    IN  [i \in 1..Len(kept) |-> [label |-> kept[i].label, value |-> kept[i].value]]

\* order by c.created_at desc: comment ids are handed out in creation order
RECURSIVE newestFirst(_)
newestFirst(ids) ==
    IF ids = {} THEN <<>>
    ELSE LET latest == CHOOSE k \in ids : \A j \in ids : j <= k
         IN  <<latest>> \o newestFirst(ids \ {latest})

\* a comments query that returns soft-deleted comments too
commentRowsWithDeleted(e, sess, d, orgId, id) ==
    LET vis == {k \in CommentIds :
                  /\ d.comments[k] # NoRow
                  /\ d.comments[k].org = orgId
                  /\ d.comments[k].contact = id}
        ordered == newestFirst(vis)
    IN  [i \in 1..Len(ordered) |->
            [id |-> ordered[i], body |-> d.comments[ordered[i]].body,
             archived |-> d.comments[ordered[i]].archived]]

\* a comments query ordered by created_at ascending
commentRowsOldestFirst(e, sess, d, orgId, id) ==
    LET vis == {k \in CommentIds :
                  /\ d.comments[k] # NoRow
                  /\ d.comments[k].org = orgId
                  /\ d.comments[k].contact = id
                  /\ ~d.comments[k].deleted}
        ordered == newestFirst(vis)
    IN  [i \in 1..Len(ordered) |->
            [id |-> ordered[Len(ordered) + 1 - i],
             body |-> d.comments[ordered[Len(ordered) + 1 - i]].body,
             archived |-> d.comments[ordered[Len(ordered) + 1 - i]].archived]]

\* the visible comments of a contact, newest first
commentRows(e, sess, d, orgId, id) ==
    LET vis == {k \in CommentIds :
                  /\ d.comments[k] # NoRow
                  /\ d.comments[k].org = orgId
                  /\ d.comments[k].contact = id
                  /\ ~d.comments[k].deleted
                  /\ Permits(e, sess, "contact_comments", "select", d.comments[k].org)}
        ordered == newestFirst(vis)
    IN  [i \in 1..Len(ordered) |->
            [id |-> ordered[i], body |-> d.comments[ordered[i]].body,
             archived |-> d.comments[ordered[i]].archived]]

loadContactDetail(e, sess, d, orgId, id) ==
    LET base == loadContactSummary(e, sess, d, orgId, id)
    IN  IF ~base.found THEN [found |-> FALSE]
        ELSE [found |-> TRUE, id |-> id, orgId |-> base.row.org,
              firstName |-> base.row.first, lastName |-> base.row.last,
              phones   |-> methodRows(e, sess, "contact_phone_numbers", d.phones[id], orgId),
              emails   |-> methodRows(e, sess, "contact_emails", d.emails[id], orgId),
              websites |-> methodRows(e, sess, "contact_websites", d.websites[id], orgId),
              comments |-> commentRows(e, sess, d, orgId, id)]

\* one child table after "delete ... where organization_id = $1 and contact_id = $2"
\* followed by one insert per submitted entry
replaceRows(e, sess, table, rows, orgId, actorUserId, entries) ==
    LET deletable(r) ==
            /\ r.org = orgId
            /\ Permits(e, sess, table, "select", r.org)
            /\ Permits(e, sess, table, "delete", r.org)
        survives(r) == ~deletable(r)
    IN  SelectSeq(rows, survives) \o
        [i \in 1..Len(entries) |->
            [org |-> orgId, label |-> entries[i].label, value |-> entries[i].value,
             created_by |-> actorUserId]]

\* replaceContactMethods: [ok, db]; an insert the policy rejects throws
replaceContactMethods(e, sess, d, c, actorUserId, contactId, payload) ==
    LET insertOk(table, entries) ==
            entries = <<>> \/ Permits(e, sess, table, "insert", c.orgId)
    IN  IF /\ insertOk("contact_phone_numbers", payload.phones)
           /\ insertOk("contact_emails", payload.emails)
           /\ insertOk("contact_websites", payload.websites)
        THEN [ok |-> TRUE,
              db |-> [d EXCEPT
                !.phones[contactId] = replaceRows(e, sess, "contact_phone_numbers", @,
                                                  c.orgId, actorUserId, payload.phones),
                !.emails[contactId] = replaceRows(e, sess, "contact_emails", @,
                                                  c.orgId, actorUserId, payload.emails),
                !.websites[contactId] = replaceRows(e, sess, "contact_websites", @,
                                                    c.orgId, actorUserId, payload.websites)]]
        ELSE [ok |-> FALSE, db |-> d]

\* a duplicate query that compares names only, whatever organization name is supplied
duplicateMatchesNamesOnly(e, sess, d, orgId, input) ==
    {k \in ContactIds :
        /\ d.contacts[k] # NoRow
        /\ d.contacts[k].org = orgId
        /\ Lower(d.contacts[k].first) = Lower(input.firstName)
        /\ Lower(d.contacts[k].last) = Lower(input.lastName)}

\* findDuplicateContact: the ids of the rows the query's WHERE clause matches
duplicateMatches(e, sess, d, orgId, input) ==
    {k \in ContactIds :
        /\ d.contacts[k] # NoRow
        /\ d.contacts[k].org = orgId
        /\ Permits(e, sess, "contacts", "select", d.contacts[k].org)
        /\ \/ /\ input.linkedInProfileUrl # ""
              /\ Lower(d.contacts[k].linkedin) = Lower(input.linkedInProfileUrl)
           \/ /\ Lower(d.contacts[k].first) = Lower(input.firstName)
              /\ Lower(d.contacts[k].last) = Lower(input.lastName)
              /\ \/ input.company = ""
                 \/ Lower(d.contacts[k].company) = Lower(input.company)}

----------------------------------------------------------------------------
(* Action Router: the cases of handleAction's switch *)

Data(status, code, data) == [kind |-> "returned", status |-> status, code |-> code, data |-> data]
NoData == <<>>

\* z.array(methodEntrySchema): label and value are trimmed, and a value that is
\* empty after trimming fails min(1)
methodEntrySchema(entries) ==
    [ok  |-> \A i \in 1..Len(entries) : Trim(entries[i].value) # "",
     out |-> [i \in 1..Len(entries) |->
                [label |-> Trim(entries[i].label), value |-> Trim(entries[i].value)]]]

\* contactUpsertSchema on a body of the right shape: the three method collections
contactUpsertSchema(p) ==
    LET phones   == methodEntrySchema(p.phones)
        emails   == methodEntrySchema(p.emails)
        websites == methodEntrySchema(p.websites)
    IN  [ok |-> phones.ok /\ emails.ok /\ websites.ok,
         p  |-> [p EXCEPT !.phones = phones.out, !.emails = emails.out,
                          !.websites = websites.out]]

\* parseBody followed by the action's zod schema: "ok", or what is thrown
parseOutcome(event) ==
    IF event.body.kind = "badJson" THEN Thrown("Invalid JSON body")
    ELSE IF event.body.kind # "valid" THEN ZodError
    ELSE IF "phones" \in DOMAIN event.body.p /\ ~contactUpsertSchema(event.body.p).ok
    THEN ZodError
    ELSE NoOutcome

Forbidden == Thrown("Insufficient role")

\* case "me"
handleMe(e, sess, d, c, event, fault) ==
    LET row == d.users[c.userId]
        linked == row # NoRow /\ row.org = c.orgId /\ Permits(e, sess, "users", "select", row.org)
    IN  Result(d, Data(200, "", [role |-> IF linked THEN row.role ELSE c.role,
                                   orgId |-> c.orgId, linkedUser |-> linked]))

\* case "users/list"
handleUsersList(e, sess, d, c, event, fault) ==
    IF ~requireRole(c, {"admin"}) THEN Result(d, Forbidden)
    ELSE Result(d, Data(200, "",
            {u \in Subjects : d.users[u] # NoRow /\ d.users[u].org = c.orgId
                              /\ Permits(e, sess, "users", "select", d.users[u].org)}))

\* case "users/update-role"
handleUpdateRole(e, sess, d, c, event, fault) ==
    IF ~requireRole(c, {"admin"}) THEN Result(d, Forbidden)
    ELSE IF parseOutcome(event) # NoOutcome THEN Result(d, parseOutcome(event))
    ELSE
    LET payload == event.body.p
        hit == /\ payload.userId \in Subjects
               /\ d.users[payload.userId] # NoRow
               /\ d.users[payload.userId].org = c.orgId
               /\ Permits(e, sess, "users", "select", c.orgId)
               /\ Permits(e, sess, "users", "update", c.orgId)
        d1 == IF hit THEN [d EXCEPT !.users[payload.userId].role = payload.role] ELSE d
        w  == writeAuditLog(e, sess, d1, c, "users.update_role", "users", payload.userId, fault)
    IN  IF ~w.ok THEN Result(d, DbError)
        ELSE Result(w.db, Data(200, "", [updated |-> hit]))

\* the search condition of contact.list on one contact row
searchMatches(d, k, term) ==
    \/ term = ""
    \/ Lower(d.contacts[k].first) = Lower(term)
    \/ Lower(d.contacts[k].last) = Lower(term)
    \/ Lower(d.contacts[k].company) = Lower(term)
    \/ \E m \in CommentIds :
          /\ d.comments[m] # NoRow
          /\ d.comments[m].org = d.contacts[k].org
          /\ d.comments[m].contact = k
          /\ ~d.comments[m].deleted
          /\ Lower(d.comments[m].body) = Lower(term)

\* case "entities/list", "contact.list": the (id, orgId) of each summary returned
handleList(e, sess, d, c, event, fault) ==
    IF ~requireRole(c, AllRoles) THEN Result(d, Forbidden)
    ELSE Result(d, Data(200, "",
            {[id |-> k, orgId |-> d.contacts[k].org] : k \in
                {k \in ContactIds :
                    /\ d.contacts[k] # NoRow
                    /\ d.contacts[k].org = c.orgId
                    /\ Permits(e, sess, "contacts", "select", d.contacts[k].org)
                    /\ searchMatches(d, k, event.search)}}))

\* case "entities/get", "contact.get"
handleGet(e, sess, d, c, event, fault) ==
    IF ~requireRole(c, AllRoles) THEN Result(d, Forbidden)
    ELSE IF event.id = 0 \/ ~isUuidId(event.id) THEN Result(d, Data(400, "BAD_REQUEST", NoData))
    ELSE LET detail == loadContactDetail(e, sess, d, c.orgId, event.id)
         IN  IF ~detail.found THEN Result(d, Data(404, "NOT_FOUND", NoData))
             ELSE Result(d, Data(200, "", detail))

\* the referred_by_contact_id foreign key: null or an existing contacts row
referenceExists(d, ref) == ref = 0 \/ (ref \in ContactIds /\ d.contacts[ref] # NoRow)

contactRow(c, payload, createdBy, updatedBy) ==
    [org |-> c.orgId, first |-> payload.firstName, last |-> payload.lastName,
     company |-> payload.company, linkedin |-> payload.linkedInProfileUrl,
     referred |-> payload.referredByContactId,
     created_by |-> createdBy, updated_by |-> updatedBy]

\* case "entities/create"
handleCreate(e, sess, d, c, event, fault) ==
    IF ~requireRole(c, {"admin", "creator"}) THEN Result(d, Forbidden)
    ELSE IF parseOutcome(event) # NoOutcome THEN Result(d, parseOutcome(event))
    ELSE
    LET payload == contactUpsertSchema(event.body.p).p
        a   == getActorUserId(e, sess, d, c, fault)
        dup == duplicateMatches(e, sess, a.db, c.orgId, payload)
        id  == a.db.nextContact
        d1  == [a.db EXCEPT !.contacts[id] = contactRow(c, payload, a.id, a.id),
                            !.nextContact = @ + 1]
        m   == replaceContactMethods(e, sess, d1, c, a.id, id, payload)
        w   == writeAuditLog(e, sess, m.db, c, "contacts.create", "contacts", id, fault)
    IN  IF a.aborted THEN Result(d, DbError)
        ELSE IF ~payload.allowDuplicate /\ dup # {}
        THEN Result(a.db, Data(409, "DUPLICATE_CONTACT",
                               [existingContactId |-> CHOOSE k \in dup : TRUE]))
        ELSE IF \/ fault = "primary"
                \/ ~Permits(e, sess, "contacts", "insert", c.orgId)
                \/ ~referenceExists(a.db, payload.referredByContactId)
        THEN Result(d, DbError)
        ELSE IF ~m.ok THEN Result(d, DbError)
        ELSE IF ~w.ok THEN Result(d, DbError)
        ELSE Result(w.db, Data(201, "", loadContactDetail(e, sess, w.db, c.orgId, id)))

\* case "entities/update", "contact.update"
handleUpdate(e, sess, d, c, event, fault) ==
    IF ~requireRole(c, {"admin", "creator"}) THEN Result(d, Forbidden)
    ELSE IF parseOutcome(event) # NoOutcome THEN Result(d, parseOutcome(event))
    ELSE
    LET payload == contactUpsertSchema(event.body.p).p
        a   == getActorUserId(e, sess, d, c, fault)
        id  == payload.id
        hit == /\ id \in ContactIds
               /\ a.db.contacts[id] # NoRow
               /\ a.db.contacts[id].org = c.orgId
               /\ Permits(e, sess, "contacts", "select", c.orgId)
               /\ Permits(e, sess, "contacts", "update", c.orgId)
        d1  == [a.db EXCEPT !.contacts[id] =
                    contactRow(c, payload, a.db.contacts[id].created_by, a.id)]
        m   == replaceContactMethods(e, sess, d1, c, a.id, id, payload)
        w   == writeAuditLog(e, sess, m.db, c, "contacts.update", "contacts", id, fault)
    IN  IF a.aborted \/ fault = "primary" THEN Result(d, DbError)
        ELSE IF ~hit THEN Result(a.db, Data(404, "NOT_FOUND", NoData))
        ELSE IF ~referenceExists(a.db, payload.referredByContactId) THEN Result(d, DbError)
        ELSE IF ~m.ok THEN Result(d, DbError)
        ELSE IF ~w.ok THEN Result(d, DbError)
        ELSE Result(w.db, Data(200, "", loadContactDetail(e, sess, w.db, c.orgId, id)))

\* a delete from contacts whose comments table has no "on delete cascade"
deleteContactRowKeepingComments(d, id) ==
    [d EXCEPT
        !.contacts = [k \in ContactIds |->
            IF k = id THEN NoRow
            ELSE IF @[k] # NoRow /\ @[k].referred = id THEN [@[k] EXCEPT !.referred = 0]
            ELSE @[k]],
        !.phones[id] = <<>>,
        !.emails[id] = <<>>,
        !.websites[id] = <<>>]

\* delete from contacts: the row, its child rows (on delete cascade) and other
\* contacts' references to it (on delete set null)
deleteContactRow(d, id) ==
    [d EXCEPT
        !.contacts = [k \in ContactIds |->
            IF k = id THEN NoRow
            ELSE IF @[k] # NoRow /\ @[k].referred = id THEN [@[k] EXCEPT !.referred = 0]
            ELSE @[k]],
        !.phones[id] = <<>>,
        !.emails[id] = <<>>,
        !.websites[id] = <<>>,
        !.comments = [m \in CommentIds |->
            IF @[m] # NoRow /\ @[m].contact = id THEN NoRow ELSE @[m]]]

\* case "entities/delete", "contact.delete"
handleDelete(e, sess, d, c, event, fault) ==
    IF ~requireRole(c, {"admin"}) THEN Result(d, Forbidden)
    ELSE IF event.id = 0 \/ ~isUuidId(event.id) THEN Result(d, Data(400, "BAD_REQUEST", NoData))
    ELSE
    LET id  == event.id
        hit == /\ id \in ContactIds
               /\ d.contacts[id] # NoRow
               /\ d.contacts[id].org = c.orgId
               /\ Permits(e, sess, "contacts", "select", c.orgId)
               /\ Permits(e, sess, "contacts", "delete", c.orgId)
        d1  == deleteContactRow(d, id)
        w   == writeAuditLog(e, sess, d1, c, "contacts.delete", "contacts", id, fault)
    IN  IF fault = "primary" THEN Result(d, DbError)
        ELSE IF ~hit THEN Result(d, Data(404, "NOT_FOUND", NoData))
        ELSE IF ~w.ok THEN Result(d, DbError)
        ELSE Result(w.db, Data(200, "", [deleted |-> TRUE]))

\* the rows parseCsvRows yields that have a first and a last name
csvRows(parsed) ==
    LET named(r) == r.firstName # "" /\ r.lastName # ""
    IN  SelectSeq(parsed, named)

RECURSIVE insertCsvRows(_, _, _, _)
insertCsvRows(d, c, actorUserId, rows) ==
    IF rows = <<>> THEN d
    ELSE insertCsvRows(
            [d EXCEPT !.contacts[d.nextContact] =
                        [org |-> c.orgId, first |-> Head(rows).firstName,
                         last |-> Head(rows).lastName, company |-> Head(rows).company,
                         linkedin |-> "", referred |-> 0,
                         created_by |-> actorUserId, updated_by |-> actorUserId],
                      !.nextContact = @ + 1],
            c, actorUserId, Tail(rows))

\* case "contact.importCsv"
handleImportCsv(e, sess, d, c, event, fault) ==
    IF ~requireRole(c, {"admin", "creator"}) THEN Result(d, Forbidden)
    ELSE IF parseOutcome(event) # NoOutcome THEN Result(d, parseOutcome(event))
    ELSE
    LET a    == getActorUserId(e, sess, d, c, fault)
        rows == csvRows(event.body.p.rows)
        d1   == insertCsvRows(a.db, c, a.id, rows)
        w    == writeAuditLog(e, sess, d1, c, "contacts.csv_import", "contacts", 0, fault)
    IN  IF a.aborted THEN Result(d, DbError)
        ELSE IF rows # <<>> /\ (fault = "primary" \/ ~Permits(e, sess, "contacts", "insert", c.orgId))
        THEN Result(d, DbError)
        ELSE IF ~w.ok THEN Result(d, DbError)
        ELSE Result(w.db, Data(200, "", [insertedCount |-> Len(rows)]))

\* case "contact.addComment"
handleAddComment(e, sess, d, c, event, fault) ==
    IF ~requireRole(c, AllRoles) THEN Result(d, Forbidden)
    ELSE IF parseOutcome(event) # NoOutcome THEN Result(d, parseOutcome(event))
    ELSE
    LET payload == event.body.p
        a   == getActorUserId(e, sess, d, c, fault)
        exists == loadContactSummary(e, sess, a.db, c.orgId, payload.contactId).found
        id  == a.db.nextComment
        d1  == [a.db EXCEPT !.comments[id] =
                    [org |-> c.orgId, contact |-> payload.contactId, body |-> payload.body,
                     archived |-> FALSE, deleted |-> FALSE, created_by |-> a.id],
                  !.nextComment = @ + 1]
        w   == writeAuditLog(e, sess, d1, c, "comments.create", "contact_comments", id, fault)
    IN  IF a.aborted THEN Result(d, DbError)
        ELSE IF ~exists THEN Result(a.db, Data(404, "NOT_FOUND", NoData))
        ELSE IF fault = "primary" \/ ~Permits(e, sess, "contact_comments", "insert", c.orgId)
        THEN Result(d, DbError)
        ELSE IF ~w.ok THEN Result(d, DbError)
        ELSE Result(w.db, Data(201, "", [id |-> id, archived |-> FALSE]))

\* an update of contact_comments without "and deleted_at is null"
commentHitDeletedToo(e, sess, d, c, id) ==
    /\ id \in CommentIds
    /\ d.comments[id] # NoRow
    /\ d.comments[id].org = c.orgId
    /\ Permits(e, sess, "contact_comments", "select", c.orgId)
    /\ Permits(e, sess, "contact_comments", "update", c.orgId)

\* the row "update contact_comments ... where id = $1 and organization_id = $2 and
\* deleted_at is null" changes, if any
commentHit(e, sess, d, c, id) ==
    /\ id \in CommentIds
    /\ d.comments[id] # NoRow
    /\ d.comments[id].org = c.orgId
    /\ ~d.comments[id].deleted
    /\ Permits(e, sess, "contact_comments", "select", c.orgId)
    /\ Permits(e, sess, "contact_comments", "update", c.orgId)

\* case "contact.archiveComment"
handleArchiveComment(e, sess, d, c, event, fault) ==
    IF ~requireRole(c, {"admin", "creator"}) THEN Result(d, Forbidden)
    ELSE IF parseOutcome(event) # NoOutcome THEN Result(d, parseOutcome(event))
    ELSE
    LET id == event.body.p.commentId
        d1 == [d EXCEPT !.comments[id].archived = TRUE]
        w  == writeAuditLog(e, sess, d1, c, "comments.archive", "contact_comments", id, fault)
    IN  IF fault = "primary" THEN Result(d, DbError)
        ELSE IF ~commentHit(e, sess, d, c, id) THEN Result(d, Data(404, "NOT_FOUND", NoData))
        ELSE IF ~w.ok THEN Result(d, DbError)
        ELSE Result(w.db, Data(200, "", [archived |-> TRUE, id |-> id]))

\* contact.deleteComment parsing the body before it checks the role
handleDeleteCommentParseFirst(e, sess, d, c, event, fault) ==
    IF parseOutcome(event) # NoOutcome THEN Result(d, parseOutcome(event))
    ELSE IF ~requireRole(c, {"admin"}) THEN Result(d, Forbidden)
    ELSE
    LET id == event.body.p.commentId
        d1 == [d EXCEPT !.comments[id].deleted = TRUE]
        w  == writeAuditLog(e, sess, d1, c, "comments.delete", "contact_comments", id, fault)
    IN  IF fault = "primary" THEN Result(d, DbError)
        ELSE IF ~commentHit(e, sess, d, c, id) THEN Result(d, Data(404, "NOT_FOUND", NoData))
        ELSE IF ~w.ok THEN Result(d, DbError)
        ELSE Result(w.db, Data(200, "", [deleted |-> TRUE, id |-> id]))

\* contact.deleteComment removing the row instead of setting deleted_at
handleDeleteCommentHard(e, sess, d, c, event, fault) ==
    IF ~requireRole(c, {"admin"}) THEN Result(d, Forbidden)
    ELSE IF parseOutcome(event) # NoOutcome THEN Result(d, parseOutcome(event))
    ELSE
    LET id == event.body.p.commentId
        d1 == [d EXCEPT !.comments[id] = NoRow]
        w  == writeAuditLog(e, sess, d1, c, "comments.delete", "contact_comments", id, fault)
    IN  IF fault = "primary" THEN Result(d, DbError)
        ELSE IF ~commentHit(e, sess, d, c, id) THEN Result(d, Data(404, "NOT_FOUND", NoData))
        ELSE IF ~w.ok THEN Result(d, DbError)
        ELSE Result(w.db, Data(200, "", [deleted |-> TRUE, id |-> id]))

\* case "contact.deleteComment"
handleDeleteComment(e, sess, d, c, event, fault) ==
    IF ~requireRole(c, {"admin"}) THEN Result(d, Forbidden)
    ELSE IF parseOutcome(event) # NoOutcome THEN Result(d, parseOutcome(event))
    ELSE
    LET id == event.body.p.commentId
        d1 == [d EXCEPT !.comments[id].deleted = TRUE]
        w  == writeAuditLog(e, sess, d1, c, "comments.delete", "contact_comments", id, fault)
    IN  IF fault = "primary" THEN Result(d, DbError)
        ELSE IF ~commentHit(e, sess, d, c, id) THEN Result(d, Data(404, "NOT_FOUND", NoData))
        ELSE IF ~w.ok THEN Result(d, DbError)
        ELSE Result(w.db, Data(200, "", [deleted |-> TRUE, id |-> id]))

\* case "csv/export"
handleCsvExport(e, sess, d, c, event, fault) ==
    IF ~requireRole(c, {"admin", "creator"}) THEN Result(d, Forbidden)
    ELSE Result(d, Data(200, "", [placeholder |-> TRUE]))

\* the switch of handleAction: the unit of work run inside withRlsContext
handleAction(e, sess, d, c, event, fault) ==
    CASE event.action = "me" -> handleMe(e, sess, d, c, event, fault)
      [] event.action = "users/list" -> handleUsersList(e, sess, d, c, event, fault)
      [] event.action = "users/update-role" -> handleUpdateRole(e, sess, d, c, event, fault)
      [] event.action \in {"entities/list", "contact.list"} ->
            handleList(e, sess, d, c, event, fault)
      [] event.action \in {"entities/get", "contact.get"} ->
            handleGet(e, sess, d, c, event, fault)
      [] event.action = "entities/create" -> handleCreate(e, sess, d, c, event, fault)
      [] event.action \in {"entities/update", "contact.update"} ->
            handleUpdate(e, sess, d, c, event, fault)
      [] event.action \in {"entities/delete", "contact.delete"} ->
            handleDelete(e, sess, d, c, event, fault)
      [] event.action = "contact.importCsv" -> handleImportCsv(e, sess, d, c, event, fault)
      [] event.action = "contact.addComment" -> handleAddComment(e, sess, d, c, event, fault)
      [] event.action = "contact.archiveComment" ->
            handleArchiveComment(e, sess, d, c, event, fault)
      [] event.action = "contact.deleteComment" ->
            handleDeleteComment(e, sess, d, c, event, fault)
      [] event.action = "csv/export" -> handleCsvExport(e, sess, d, c, event, fault)
      [] OTHER -> Result(d, Data(404, "NOT_FOUND", NoData))

----------------------------------------------------------------------------
(* Requests the callers send *)

Roles_(items) == [isArray |-> TRUE, items |-> items]
Token(kind, sub, roles, orgId, tid) ==
    [kind |-> kind, sub |-> sub, roles |-> roles, org_id |-> orgId, tid |-> tid]

ValidTokens ==
    { Token("valid", "s1", Roles_({"admin"}), "o1", ""),
      Token("valid", "s2", Roles_({"creator"}), "o1", ""),
      Token("valid", "s2", [isArray |-> FALSE, items |-> {}], "o1", ""),
      Token("valid", "s1", Roles_({"creator", "admin"}), "", "o2") }

InvalidTokens ==
    { Token("none", "", Roles_({}), "", ""),
      Token("badsig", "s1", Roles_({"admin"}), "o1", ""),
      Token("expired", "s1", Roles_({"admin"}), "o1", ""),
      Token("valid", "", Roles_({"admin"}), "o1", ""),
      Token("valid", "s1", Roles_({"admin"}), "not-a-uuid", "") }

Method(label, value) == [label |-> label, value |-> value]

Upsert(first, last, company, phones, emails, websites) ==
    [firstName |-> first, lastName |-> last, company |-> company, linkedInProfileUrl |-> "",
     referredByContactId |-> 0, phones |-> phones, emails |-> emails, websites |-> websites,
     allowDuplicate |-> FALSE, id |-> 0]

SameAsSeed ==
    Upsert("Jordan", "Price", "Acme", <<Method("m", "111")>>, <<Method("", "a@x")>>, <<>>)
SameButCase ==
    Upsert("jordan", "price", "", <<Method("", "222"), Method("w", "333")>>, <<>>,
           <<Method("", "w.x")>>)
Another == Upsert("Ann", "Lee", "", <<>>, <<>>, <<>>)
SameLinkedIn == [Another EXCEPT !.linkedInProfileUrl = "LI/JP"]
\* a contact with a phone entry whose value is blank and one whose value is not
BlankEntry == Upsert("Ann", "Lee", "", <<Method("", " "), Method("m", "111")>>, <<>>, <<>>)
\* a contact referred by the seeded contact, and one referred by an id no row has
Referred == {[Another EXCEPT !.referredByContactId = r] : r \in {1, MaxContacts + 1}}
OtherCompany == Upsert("Jordan", "Price", "Beta", <<>>, <<>>, <<>>)

Body(kind, p) == [kind |-> kind, p |-> p]
NoBody == Body("empty", <<>>)
BadBodies == {Body("badJson", <<>>), Body("invalid", <<>>), NoBody}

Event(action, id, body) ==
    [action |-> action, id |-> id, body |-> body, search |-> "", xff |-> "",
     named |-> action # "", token |-> NoRow]

\* ids a caller can put in a request: malformed, every id of the model, and a
\* well-formed id no row has
QueryIds == {-1, 0} \cup ContactIds \cup {MaxContacts + 1}

CsvInputs ==
    { <<>>,
      <<[firstName |-> "Jordan", lastName |-> "Price", company |-> "Acme"],
        [firstName |-> "", lastName |-> "Solo", company |-> ""]>> }

ActionEvents ==
    {Event(a, 0, NoBody) : a \in {"me", "users/list", "entities/list", "contact.list",
                                   "csv/export", "nope"}}
    \cup {Event("users/update-role", 0, Body("valid", [userId |-> u, role |-> "admin"])) :
            u \in Subjects}
    \cup {Event("contact.get", i, NoBody) : i \in QueryIds}
    \cup {Event("contact.delete", i, NoBody) : i \in QueryIds}
    \cup {Event(a, 1, NoBody) : a \in {"entities/get", "entities/delete"}}
    \cup {Event("entities/create", 0, Body("valid", p)) :
            p \in {SameAsSeed, SameButCase, Another, SameLinkedIn, OtherCompany,
                    [SameButCase EXCEPT !.allowDuplicate = TRUE]}}
    \cup {Event("contact.update", 0, Body("valid", [SameButCase EXCEPT !.id = i])) :
            i \in ContactIds \cup {MaxContacts + 1}}
    \cup {Event("contact.update", 0, Body("valid", [SameAsSeed EXCEPT !.id = 1])),
          Event("entities/update", 0, Body("valid", [Another EXCEPT !.id = 1]))}
    \cup {Event("contact.importCsv", 0, Body("valid", [rows |-> r])) : r \in CsvInputs}
    \cup {Event("contact.addComment", 0, Body("valid", [contactId |-> i, body |-> "hello"])) :
            i \in ContactIds}
    \cup {Event(a, 0, Body("valid", [commentId |-> i])) :
            a \in {"contact.archiveComment", "contact.deleteComment"},
            i \in CommentIds \cup {MaxComments + 1}}
    \cup {Event(a, 0, b) : a \in {"entities/create", "contact.deleteComment"}, b \in BadBodies}

\* what a request carries besides its action: the forwarded-for header, whether an
\* action parameter is present, and the bearer token
Tokens == ValidTokens \cup InvalidTokens
XffValues == {""}
\* the keys rateLimitStore can hold: "local" and the forwarded-for values of the model
Keys == {"local", "a"}

\* rows the inserts of the request would need beyond the ids of the model
fitsBounds(d, event) ==
    /\ event.action = "entities/create" => d.nextContact <= MaxContacts
    /\ (event.action = "contact.importCsv" /\ event.body.kind = "valid")
          => d.nextContact + Len(csvRows(event.body.p.rows)) - 1 <= MaxContacts
    /\ event.action = "contact.addComment" => d.nextComment <= MaxComments

----------------------------------------------------------------------------
(* handler and withRlsContext, one action per step *)

Step(op, ok) == [op |-> op, ok |-> ok]
NoTx == [absent |-> TRUE]
Idle == [held |-> FALSE, sess |-> NoSession]

Environments ==
    {[production |-> TRUE, devFlag |-> FALSE, jwks |-> TRUE, azureIssuer |-> TRUE,
      azureAudience |-> TRUE, defaultOrgId |-> "", devUserSub |-> "dev-local-sub",
      devUserRole |-> "participant", rateLimitMax |-> RateLimitMax,
      pool |-> p, rls |-> r] : p \in BOOLEAN, r \in BOOLEAN}

\* the seeded database: one organization's creator and one of its contacts
SeedDb ==
    [users |-> [u \in Subjects |-> IF u = "s2" THEN [org |-> "o1", role |-> "creator"] ELSE NoRow],
     contacts |-> [k \in ContactIds |->
        IF k = 1 THEN [org |-> "o1", first |-> "Jordan", last |-> "Price", company |-> "Acme",
                       linkedin |-> "li/jp", referred |-> 0, created_by |-> "s2", updated_by |-> "s2"]
        ELSE NoRow],
     phones |-> [k \in ContactIds |->
        IF k = 1 THEN <<[org |-> "o1", label |-> "m", value |-> "555", created_by |-> "s2"]>>
        ELSE <<>>],
     emails |-> [k \in ContactIds |-> <<>>],
     websites |-> [k \in ContactIds |-> <<>>],
     comments |-> [m \in CommentIds |-> NoRow],
     audit |-> <<>>,
     nextContact |-> 2,
     nextComment |-> 1]

\* the connections that serve requests at the same time
Workers == {1, 2}
MethodTables == {"phones", "emails", "websites"}

\* what a transaction has written and not yet committed
NoWrites ==
    [users    |-> [u \in Subjects |-> NoRow],
     contacts |-> [k \in ContactIds |-> NoRow],
     inserted |-> {},
     deleted  |-> [t \in MethodTables |-> [k \in ContactIds |-> {}]],
     added    |-> [t \in MethodTables |-> [k \in ContactIds |-> <<>>]],
     audit    |-> <<>>]

Worker(c, event, at) ==
    [ctx |-> c, event |-> event, pc |-> at, actor |-> NULL, id |-> 0, writes |-> NoWrites,
     outcome |-> NoOutcome, resp |-> NoResp]

NoWorker == Worker(NoCtx, Event("", 0, NoBody), "done")

\* the web client's module state before any call: no token, no provider
NoResponse == [status |-> 0, message |-> ""]
ApiIdle ==
    [apiAuthToken |-> "", apiAuthTokenProvider |-> FALSE, pc |-> "idle", didRetryForAuth |-> FALSE,
     authToken |-> "", response |-> NoResponse, sent |-> 0, retries |-> 0]

InitWith(envs, seeds) ==
    /\ env \in envs
    /\ workers = [w \in Workers |-> NoWorker]
    /\ api = ApiIdle
    /\ rateLimitStore = [k \in Keys |-> NoRow]
    /\ accepted = [k \in Keys |-> [t \in 0..MaxTime |-> 0]]
    /\ now = 0
    /\ db \in seeds
    /\ pc = "idle"
    /\ req = Event("", 0, NoBody)
    /\ ctx = NoCtx
    /\ client = Idle
    /\ tx = NoTx
    /\ outcome = NoOutcome
    /\ trace = <<>>
    /\ resp = NoResp
    /\ before = db

Init == InitWith(Environments, {SeedDb})

\* handler's return: the envelope returned, or the catch block's classification
respond(out) ==
    IF out.kind = "returned"
    THEN [status |-> out.status, code |-> out.code, ok |-> out.status < 400, data |-> out.data]
    ELSE classify(out) @@ [data |-> NoData]

\* handler: rateLimit, the action parameter, verifyToken. The parts of the event
\* are drawn when the code first reads them: the header by rateLimit, the presence
\* of the action, then the token; the action's name, query and body by the switch
ReceiveFrom(xffs) ==
    /\ pc \in {"idle", "done"}
    /\ \E xff \in xffs :
        LET event == [Event("", 0, NoBody) EXCEPT !.xff = xff]
            rl == rateLimit(rateLimitStore, env, now, event)
        IN  /\ rateLimitStore' = rl.store
            /\ accepted' = IF rl.ok THEN [accepted EXCEPT ![rateLimitKey(event)][now] = @ + 1]
                                    ELSE accepted
            /\ before' = db
            /\ trace' = <<>>
            /\ tx' = NoTx
            /\ ctx' = NoCtx
            /\ IF ~rl.ok
               THEN /\ req' = [event EXCEPT !.named = FALSE]
                    /\ outcome' = Thrown("Rate limit exceeded")
                    /\ resp' = respond(outcome')
                    /\ pc' = "done"
               ELSE \/ /\ req' = [event EXCEPT !.named = FALSE]
                       /\ outcome' = Data(400, "BAD_REQUEST", NoData)
                       /\ resp' = respond(outcome')
                       /\ pc' = "done"
                    \/ /\ req' = [event EXCEPT !.named = TRUE]
                       /\ outcome' = NoOutcome
                       /\ resp' = NoResp
                       /\ pc' = "verify"
    /\ UNCHANGED <<env, workers, api, now, db, client>>

Receive == ReceiveFrom(XffValues)

\* handler: await verifyToken(event)
VerifyWith(tokens) ==
    /\ pc = "verify"
    /\ \E t \in tokens :
        LET v == verifyToken(env, [req EXCEPT !.token = t])
        IN  /\ req' = [req EXCEPT !.token = t]
            /\ IF v.ok
               THEN ctx' = v.ctx /\ pc' = "connect" /\ UNCHANGED <<outcome, resp>>
               ELSE /\ outcome' = Thrown(v.message)
                    /\ resp' = respond(outcome')
                    /\ pc' = "done"
                    /\ UNCHANGED ctx
    /\ UNCHANGED <<env, workers, api, rateLimitStore, accepted, now, db, client, tx, trace, before>>

Verify == VerifyWith(Tokens)

\* withRlsContext: the pool check and pool.connect()
Connect ==
    /\ pc = "connect"
    /\ IF ~env.pool
       THEN /\ outcome' = Thrown("SUPABASE_DB_URL is required for strict RLS mode")
            /\ resp' = respond(outcome')
            /\ pc' = "done"
            /\ UNCHANGED <<client, trace>>
       ELSE \E ok \in BOOLEAN :
            /\ trace' = Append(trace, Step("connect", ok))
            /\ IF ok THEN /\ client' = [client EXCEPT !.held = TRUE]
                          /\ pc' = "begin"
                          /\ UNCHANGED <<outcome, resp>>
                     ELSE /\ outcome' = DbError
                          /\ resp' = respond(outcome')
                          /\ pc' = "done"
                          /\ UNCHANGED client
    /\ UNCHANGED <<env, workers, api, rateLimitStore, accepted, now, db, req, ctx, tx, before>>

\* a try block that carries on after a statement that threw
afterStatementIgnoringErrors(ok, next) == next

\* where the try block continues after a statement: the catch block on a throw
afterStatement(ok, next) == IF ok THEN next ELSE "rollback"

\* client.query("begin")
Begin ==
    /\ pc = "begin"
    /\ \E ok \in BOOLEAN :
        /\ trace' = Append(trace, Step("begin", ok))
        /\ pc' = afterStatement(ok, "set_config")
        /\ IF ok THEN tx' = db /\ UNCHANGED outcome
                 ELSE outcome' = DbError /\ UNCHANGED tx
    /\ UNCHANGED <<env, workers, api, rateLimitStore, accepted, now, db, req, ctx, client, resp, before>>

\* select set_config('app.current_sub', $1, true), ...
SetConfig ==
    /\ pc = "set_config"
    /\ \E ok \in BOOLEAN :
        /\ trace' = Append(trace, Step("set_config", ok))
        /\ pc' = afterStatement(ok, "run")
        /\ IF ok THEN /\ client' = [client EXCEPT !.sess =
                                      [sub |-> ctx.userId, role |-> ctx.role, org |-> ctx.orgId]]
                      /\ UNCHANGED outcome
                 ELSE outcome' = DbError /\ UNCHANGED client
    /\ UNCHANGED <<env, workers, api, rateLimitStore, accepted, now, db, req, ctx, tx, resp, before>>

StatementFaults == {"none", "primary", "lazyUser", "audit"}

\* await run(client): the unit of work, with at most one statement failing
RunWith(events) ==
    /\ pc = "run"
    /\ \E ev \in events, fault \in StatementFaults :
        LET event == [ev EXCEPT !.xff = req.xff, !.token = req.token]
            r == handleAction(env, client.sess, tx, ctx, event, fault)
        IN  /\ fitsBounds(tx, event)
            /\ req' = event
            /\ trace' = Append(trace, Step("run", r.out.kind = "returned"))
            /\ outcome' = r.out
            /\ pc' = afterStatement(r.out.kind = "returned", "commit")
            /\ tx' = IF r.out.kind = "returned" THEN r.db ELSE tx
    /\ UNCHANGED <<env, workers, api, rateLimitStore, accepted, now, db, ctx, client, resp, before>>

Run == RunWith(ActionEvents)

\* settings made with set_config(name, value, false): they outlive the transaction
settingsAfterTransactionOfSession(sess) == sess

\* settings made with set_config(name, value, true) end with the transaction
settingsAfterTransaction(sess) == NoSession

\* client.query("commit")
Commit ==
    /\ pc = "commit"
    /\ \E ok \in BOOLEAN :
        /\ trace' = Append(trace, Step("commit", ok))
        /\ IF ok THEN /\ db' = tx
                      /\ tx' = NoTx
                      /\ client' = [client EXCEPT !.sess = settingsAfterTransaction(@)]
                      /\ pc' = "release"
                      /\ UNCHANGED outcome
                 ELSE /\ outcome' = DbError
                      /\ pc' = "rollback"
                      /\ UNCHANGED <<db, tx, client>>
    /\ UNCHANGED <<env, workers, api, rateLimitStore, accepted, now, req, ctx, resp, before>>

\* a catch block whose failing rollback skips the finally block
afterRollbackNoFinally(ok) == IF ok THEN "release" ELSE "done"

\* the finally block runs after the catch block whether or not rollback threw
afterRollback(ok) == "release"

\* catch: client.query("rollback"); an error it throws replaces the one caught
Rollback ==
    /\ pc = "rollback"
    /\ \E ok \in BOOLEAN :
        /\ trace' = Append(trace, Step("rollback", ok))
        /\ tx' = NoTx
        /\ client' = [client EXCEPT !.sess = settingsAfterTransaction(@)]
        /\ outcome' = IF ok THEN outcome ELSE DbError
        /\ pc' = afterRollback(ok)
    /\ UNCHANGED <<env, workers, api, rateLimitStore, accepted, now, db, req, ctx, resp, before>>

\* finally: client.release(); then handler returns the result or classifies the error
Release ==
    /\ pc = "release"
    /\ trace' = Append(trace, Step("release", TRUE))
    /\ client' = [client EXCEPT !.held = FALSE]
    /\ resp' = respond(outcome)
    /\ pc' = "done"
    /\ UNCHANGED <<env, workers, api, rateLimitStore, accepted, now, db, req, ctx, tx, outcome, before>>

Next ==
    \/ Receive
    \/ Verify
    \/ Connect
    \/ Begin
    \/ SetConfig
    \/ Run
    \/ Commit
    \/ Rollback
    \/ Release

Spec == Init /\ [][Next]_vars

----------------------------------------------------------------------------
(* The same endpoint serving an organization that already holds two contacts, *)
(* one referred by the other, and a comment in each state of its lifecycle    *)

\* the audit entry an earlier comment action of admin s1 left
CommentAudit(action) ==
    [org |-> "o1", actor_user_id |-> "s1", actor_subject |-> "s1", action |-> action,
     entity_type |-> "contact_comments", entity_id |-> 1]

SeededDb(archived, deleted) ==
    [SeedDb EXCEPT
        !.users["s1"] = [org |-> "o1", role |-> "admin"],
        !.contacts[2] = [org |-> "o1", first |-> "Ann", last |-> "Lee", company |-> "",
                         linkedin |-> "", referred |-> 1, created_by |-> "s1", updated_by |-> "s1"],
        !.emails[2] = <<[org |-> "o1", label |-> "", value |-> "a@x", created_by |-> "s1"]>>,
        !.comments[1] = [org |-> "o1", contact |-> 1, body |-> "hello", archived |-> archived,
                         deleted |-> deleted, created_by |-> "s2"],
        !.nextContact = 3,
        !.nextComment = 2,
        !.audit = (IF archived THEN <<CommentAudit("comments.archive")>> ELSE <<>>)
                  \o (IF deleted THEN <<CommentAudit("comments.delete")>> ELSE <<>>)]

SeededDbs == {SeededDb(archived, deleted) : archived \in BOOLEAN, deleted \in BOOLEAN}
SeededEnvironments == {e \in Environments : e.pool}

SeededEvents ==
    {Event("contact.delete", i, NoBody) : i \in ContactIds \cup {MaxContacts + 1}}
    \cup {Event("entities/delete", 1, NoBody), Event("contact.get", 1, NoBody),
          [Event("contact.list", 0, NoBody) EXCEPT !.search = "hello"]}
    \cup {Event("contact.addComment", 0, Body("valid", [contactId |-> i, body |-> "again"])) :
            i \in {1, MaxContacts + 1}}
    \cup {Event(a, 0, Body("valid", [commentId |-> i])) :
            a \in {"contact.archiveComment", "contact.deleteComment"},
            i \in {1, MaxComments + 1}}

InitSeeded == InitWith(SeededEnvironments, SeededDbs)
VerifySeeded == VerifyWith(ValidTokens)
RunSeeded == RunWith(SeededEvents)

NextSeeded ==
    \/ Receive
    \/ VerifySeeded
    \/ Connect
    \/ Begin
    \/ SetConfig
    \/ RunSeeded
    \/ Commit
    \/ Rollback
    \/ Release

SpecSeeded == InitSeeded /\ [][NextSeeded]_vars

----------------------------------------------------------------------------
(* The same endpoint with time passing between requests and two caller keys *)

ClockEnvironments == {e \in Environments : e.pool /\ ~e.rls}
ClockXffValues == {"", "a"}
ClockTokens == {Token("valid", "s1", Roles_({"admin"}), "o1", ""), Token("none", "", Roles_({}), "", "")}
ClockEvents == {Event("me", 0, NoBody)}

InitClock == InitWith(ClockEnvironments, {SeedDb})
ReceiveClock == ReceiveFrom(ClockXffValues)
VerifyClock == VerifyWith(ClockTokens)
RunClock == RunWith(ClockEvents)

\* Date.now() advances between requests
Tick ==
    /\ pc \in {"idle", "done"}
    /\ now < MaxTime
    /\ now' = now + 1
    /\ UNCHANGED <<env, workers, api, rateLimitStore, accepted, db, pc, req, ctx, client, tx, outcome, trace,
                   resp, before>>

NextClock ==
    \/ ReceiveClock
    \/ VerifyClock
    \/ Connect
    \/ Begin
    \/ SetConfig
    \/ RunClock
    \/ Commit
    \/ Rollback
    \/ Release
    \/ Tick

SpecClock == InitClock /\ [][NextClock]_vars

----------------------------------------------------------------------------
(* The identity verifier under every configuration and a range of tokens *)

\* complete and incomplete token-issuer configurations: (jwks, issuer, audience)
IssuerConfigurations ==
    {<<TRUE, TRUE, TRUE>>, <<FALSE, TRUE, TRUE>>, <<TRUE, FALSE, TRUE>>, <<TRUE, TRUE, FALSE>>,
     <<FALSE, FALSE, FALSE>>}

AuthEnvironments ==
    {[production |-> prod, devFlag |-> dev, jwks |-> cfg[1], azureIssuer |-> cfg[2],
      azureAudience |-> cfg[3], defaultOrgId |-> org, devUserSub |-> "s1",
      devUserRole |-> role, rateLimitMax |-> RateLimitMax - 1, pool |-> TRUE, rls |-> FALSE] :
        prod \in BOOLEAN, dev \in BOOLEAN, cfg \in IssuerConfigurations,
        org \in {"", "o1", "not-a-uuid"}, role \in {"participant", "admin"}}

\* roles claims: arrays, a single string, and a missing claim
RolesClaims ==
    {Roles_(items) : items \in SUBSET {"admin", "creator", "reader"}}
    \cup {[isArray |-> FALSE, items |-> {"admin"}], [isArray |-> FALSE, items |-> {}]}

AuthTokens ==
    {Token("valid", "s1", r, "o1", "") : r \in RolesClaims}
    \cup {Token("valid", "s1", Roles_({"creator"}), o, t) :
            o \in {"", "o2", " o2 ", "not-a-uuid"}, t \in {"", "o1", "not-a-uuid"}}
    \cup {Token("valid", "", Roles_({"admin"}), "o1", ""),
          Token("none", "", Roles_({}), "", ""),
          Token("badsig", "s1", Roles_({"admin"}), "o1", "")}

InitAuth == InitWith(AuthEnvironments, {SeedDb})
VerifyAuth == VerifyWith(AuthTokens)

NextAuth ==
    \/ Receive
    \/ VerifyAuth
    \/ Connect
    \/ Begin
    \/ SetConfig
    \/ RunClock
    \/ Commit
    \/ Rollback
    \/ Release

SpecAuth == InitAuth /\ [][NextAuth]_vars

----------------------------------------------------------------------------
(* The same endpoint when no request carries the allowDuplicate override *)

StrictEvents ==
    {ev \in ActionEvents :
        ~(/\ ev.action = "entities/create"
          /\ ev.body.kind = "valid"
          /\ ev.body.p.allowDuplicate)}

RunStrict == RunWith(StrictEvents)

NextStrict ==
    \/ Receive
    \/ Verify
    \/ Connect
    \/ Begin
    \/ SetConfig
    \/ RunStrict
    \/ Commit
    \/ Rollback
    \/ Release

SpecStrict == Init /\ [][NextStrict]_vars

----------------------------------------------------------------------------
(* Requests whose payload carries a reference to another contact or a method *)
(* entry that is blank after trimming                                        *)

PayloadEvents ==
    {Event("entities/create", 0, Body("valid", p)) : p \in {Another, BlankEntry} \cup Referred}
    \cup {Event("contact.update", 0, Body("valid", [p EXCEPT !.id = 1])) :
            p \in {BlankEntry} \cup Referred}
    \cup {Event("contact.get", i, NoBody) : i \in QueryIds}
    \cup {Event("contact.delete", i, NoBody) : i \in ContactIds}

RunPayload == RunWith(PayloadEvents)

NextPayload ==
    \/ Receive
    \/ Verify
    \/ Connect
    \/ Begin
    \/ SetConfig
    \/ RunPayload
    \/ Commit
    \/ Rollback
    \/ Release

SpecPayload == Init /\ [][NextPayload]_vars

----------------------------------------------------------------------------
(* Two requests served at the same time on two connections of one database,   *)
(* statement by statement, at the READ COMMITTED level "begin" starts         *)

\* what a statement of a transaction sees: the committed rows, less the rows the
\* transaction deleted, with the rows it wrote
visible(d, wr) ==
    LET rows(t) ==
            [k \in ContactIds |->
                LET kept(r) == r \notin wr.deleted[t][k]
                IN  SelectSeq(d[t][k], kept) \o wr.added[t][k]]
        last == IF wr.inserted = {} THEN 0 ELSE CHOOSE k \in wr.inserted : \A j \in wr.inserted : j <= k
    IN  [d EXCEPT
            !.users = [u \in Subjects |-> IF wr.users[u] # NoRow THEN wr.users[u] ELSE @[u]],
            !.contacts = [k \in ContactIds |->
                            IF wr.contacts[k] # NoRow THEN wr.contacts[k] ELSE @[k]],
            !.phones = rows("phones"),
            !.emails = rows("emails"),
            !.websites = rows("websites"),
            !.audit = @ \o wr.audit,
            !.nextContact = IF last >= @ THEN last + 1 ELSE @]

\* gen_random_uuid(): an id no committed row and no transaction in progress uses
freshContact(d, ws) ==
    LET used == UNION {ws[o].writes.inserted : o \in Workers}
        free == {k \in d.nextContact..(MaxContacts + 1) : k \notin used}
    IN  CHOOSE k \in free : \A j \in free : k <= j

\* an update that never waits for another transaction's row lock
rowLockedNever(ws, w, id) == FALSE

\* the contacts row is locked by the update of another transaction in progress
rowLocked(ws, w, id) ==
    \E o \in Workers \ {w} : ws[o].pc # "done" /\ ws[o].writes.contacts[id] # NoRow

\* another transaction in progress holds an uncommitted users row of the subject:
\* the unique index on users.subject makes the insert wait for it
subjectLocked(ws, w, sub) ==
    \E o \in Workers \ {w} : ws[o].pc # "done" /\ ws[o].writes.users[sub] # NoRow

\* another transaction in progress has deleted one of the rows
methodsLocked(ws, w, t, k, rows) ==
    \E o \in Workers \ {w} : ws[o].pc # "done" /\ ws[o].writes.deleted[t][k] \cap rows # {}

Session(c) == [sub |-> c.userId, role |-> c.role, org |-> c.orgId]
PolicyTable(t) ==
    CASE t = "phones" -> "contact_phone_numbers"
      [] t = "emails" -> "contact_emails"
      [] OTHER        -> "contact_websites"

\* the statement after getActorUserId in the action's case
afterActor(event) == IF event.action = "entities/create" THEN "duplicate" ELSE "update"

\* the catch block of withRlsContext and of handler: rollback, release, classify
thrown(s, out) ==
    [s EXCEPT !.pc = "done", !.writes = NoWrites, !.outcome = out, !.resp = respond(out)]

PairUnchanged ==
    UNCHANGED <<env, rateLimitStore, accepted, now, pc, req, ctx, client, tx, outcome, trace,
                resp, before, api>>

\* begin, set_config, then requireRole and the schema's parse
PairBegin ==
    \E w \in Workers :
        LET s == workers[w]
        IN  /\ s.pc = "begin"
            /\ workers' = [workers EXCEPT ![w] =
                    IF ~requireRole(s.ctx, {"admin", "creator"}) THEN thrown(s, Forbidden)
                    ELSE IF parseOutcome(s.event) # NoOutcome THEN thrown(s, parseOutcome(s.event))
                    ELSE [s EXCEPT !.pc = "actor"]]
            /\ UNCHANGED db
            /\ PairUnchanged

\* getActorUserId: select id from users where subject = $1 and organization_id = $2
PairSelectActor ==
    \E w \in Workers :
        LET s == workers[w]
            v == visible(db, s.writes)
        IN  /\ s.pc = "actor"
            /\ workers' = [workers EXCEPT ![w] =
                    IF actorFound(env, Session(s.ctx), v, s.ctx)
                    THEN [s EXCEPT !.actor = s.ctx.userId, !.pc = afterActor(s.event)]
                    ELSE [s EXCEPT !.pc = "upsert_actor"]]
            /\ UNCHANGED db
            /\ PairUnchanged

\* getActorUserId: insert into users ... on conflict (subject) do update
PairUpsertActor ==
    \E w \in Workers :
        LET s == workers[w]
            v == visible(db, s.writes)
            r == upsertActor(env, Session(s.ctx), v, s.ctx)
        IN  /\ s.pc = "upsert_actor"
            /\ ~subjectLocked(workers, w, s.ctx.userId)
            /\ workers' = [workers EXCEPT ![w] =
                    IF r.aborted THEN thrown(s, DbError)
                    ELSE [s EXCEPT !.actor = r.id,
                                   !.writes.users[s.ctx.userId] = r.db.users[s.ctx.userId],
                                   !.pc = afterActor(s.event)]]
            /\ UNCHANGED db
            /\ PairUnchanged

\* entities/create: findDuplicateContact unless allowDuplicate
PairDuplicate ==
    \E w \in Workers :
        LET s == workers[w]
            v == visible(db, s.writes)
            payload == contactUpsertSchema(s.event.body.p).p
            dup == duplicateMatches(env, Session(s.ctx), v, s.ctx.orgId, payload)
        IN  /\ s.pc = "duplicate"
            /\ workers' = [workers EXCEPT ![w] =
                    IF ~payload.allowDuplicate /\ dup # {}
                    THEN [s EXCEPT !.outcome = Data(409, "DUPLICATE_CONTACT",
                                        [existingContactId |-> CHOOSE k \in dup : TRUE]),
                                   !.pc = "commit"]
                    ELSE [s EXCEPT !.pc = "insert"]]
            /\ UNCHANGED db
            /\ PairUnchanged

\* entities/create: insert into contacts ... returning unique_id
PairInsert ==
    \E w \in Workers :
        LET s == workers[w]
            v == visible(db, s.writes)
            payload == contactUpsertSchema(s.event.body.p).p
            id == freshContact(db, workers)
        IN  /\ s.pc = "insert"
            /\ id <= MaxContacts
            /\ workers' = [workers EXCEPT ![w] =
                    IF \/ ~Permits(env, Session(s.ctx), "contacts", "insert", s.ctx.orgId)
                       \/ ~referenceExists(v, payload.referredByContactId)
                    THEN thrown(s, DbError)
                    ELSE [s EXCEPT !.id = id,
                                   !.writes.contacts[id] = contactRow(s.ctx, payload, s.actor, s.actor),
                                   !.writes.inserted = @ \cup {id},
                                   !.pc = "delete_phones"]]
            /\ UNCHANGED db
            /\ PairUnchanged

\* contact.update: update contacts set ... where unique_id = $n and organization_id = $m
PairUpdate ==
    \E w \in Workers :
        LET s == workers[w]
            v == visible(db, s.writes)
            payload == contactUpsertSchema(s.event.body.p).p
            id == payload.id
            hit == /\ id \in ContactIds
                   /\ v.contacts[id] # NoRow
                   /\ v.contacts[id].org = s.ctx.orgId
                   /\ Permits(env, Session(s.ctx), "contacts", "select", s.ctx.orgId)
                   /\ Permits(env, Session(s.ctx), "contacts", "update", s.ctx.orgId)
        IN  /\ s.pc = "update"
            /\ id \in ContactIds => ~rowLocked(workers, w, id)
            /\ workers' = [workers EXCEPT ![w] =
                    IF ~hit THEN [s EXCEPT !.outcome = Data(404, "NOT_FOUND", NoData),
                                           !.pc = "commit"]
                    ELSE IF ~referenceExists(v, payload.referredByContactId)
                    THEN thrown(s, DbError)
                    ELSE [s EXCEPT !.id = id,
                                   !.writes.contacts[id] =
                                        contactRow(s.ctx, payload, v.contacts[id].created_by, s.actor),
                                   !.pc = "delete_phones"]]
            /\ UNCHANGED db
            /\ PairUnchanged

\* replaceContactMethods: delete from <table> where organization_id = $1 and contact_id = $2
PairDeleteMethods ==
    \E w \in Workers, t \in MethodTables :
        LET s == workers[w]
            sess == Session(s.ctx)
            deletable(r) ==
                /\ r.org = s.ctx.orgId
                /\ Permits(env, sess, PolicyTable(t), "select", r.org)
                /\ Permits(env, sess, PolicyTable(t), "delete", r.org)
            survives(r) == ~deletable(r)
            stored == {db[t][s.id][i] : i \in 1..Len(db[t][s.id])} \ s.writes.deleted[t][s.id]
            gone == {r \in stored : deletable(r)}
        IN  /\ s.pc = "delete_" \o t
            /\ ~methodsLocked(workers, w, t, s.id, gone)
            /\ workers' = [workers EXCEPT ![w] =
                    [s EXCEPT !.writes.deleted[t][s.id] = @ \cup gone,
                              !.writes.added[t][s.id] = SelectSeq(@, survives),
                              !.pc = CASE t = "phones" -> "delete_emails"
                                       [] t = "emails" -> "delete_websites"
                                       [] OTHER        -> "insert_methods"]]
            /\ UNCHANGED db
            /\ PairUnchanged

\* replaceContactMethods: one insert per submitted phone, email and website
PairInsertMethods ==
    \E w \in Workers :
        LET s == workers[w]
            payload == contactUpsertSchema(s.event.body.p).p
            insertOk(t) ==
                payload[t] = <<>>
                \/ Permits(env, Session(s.ctx), PolicyTable(t), "insert", s.ctx.orgId)
            rows(t) ==
                [i \in 1..Len(payload[t]) |->
                    [org |-> s.ctx.orgId, label |-> payload[t][i].label,
                     value |-> payload[t][i].value, created_by |-> s.actor]]
        IN  /\ s.pc = "insert_methods"
            /\ workers' = [workers EXCEPT ![w] =
                    IF \E t \in MethodTables : ~insertOk(t) THEN thrown(s, DbError)
                    ELSE [s EXCEPT !.writes.added =
                                        [t \in MethodTables |->
                                            [@[t] EXCEPT ![s.id] = @ \o rows(t)]],
                                   !.pc = "audit"]]
            /\ UNCHANGED db
            /\ PairUnchanged

\* writeAuditLog: getActorUserId again, then insert into audit_log
PairAudit ==
    \E w \in Workers :
        LET s == workers[w]
            v == visible(db, s.writes)
            name == IF s.event.action = "entities/create" THEN "contacts.create"
                    ELSE "contacts.update"
            a == writeAuditLog(env, Session(s.ctx), v, s.ctx, name, "contacts", s.id, "none")
        IN  /\ s.pc = "audit"
            /\ workers' = [workers EXCEPT ![w] =
                    IF ~a.ok THEN thrown(s, DbError)
                    ELSE [s EXCEPT !.writes.audit = Append(@, a.db.audit[Len(a.db.audit)]),
                                   !.pc = "detail"]]
            /\ UNCHANGED db
            /\ PairUnchanged

\* loadContactDetail and the json(...) the case returns
PairDetail ==
    \E w \in Workers :
        LET s == workers[w]
            v == visible(db, s.writes)
            status == IF s.event.action = "entities/create" THEN 201 ELSE 200
        IN  /\ s.pc = "detail"
            /\ workers' = [workers EXCEPT ![w] =
                    [s EXCEPT !.outcome = Data(status, "",
                                    loadContactDetail(env, Session(s.ctx), v, s.ctx.orgId, s.id)),
                              !.pc = "commit"]]
            /\ UNCHANGED db
            /\ PairUnchanged

\* withRlsContext: commit, release; handler returns the response
PairCommit ==
    \E w \in Workers :
        LET s == workers[w]
        IN  /\ s.pc = "commit"
            /\ db' = visible(db, s.writes)
            /\ workers' = [workers EXCEPT ![w] =
                    [s EXCEPT !.pc = "done", !.writes = NoWrites, !.resp = respond(s.outcome)]]
            /\ PairUnchanged

PairCallers ==
    {[userId |-> "s1", role |-> "admin", orgId |-> "o1"],
     [userId |-> "s2", role |-> "creator", orgId |-> "o1"]}

PairEvents ==
    {Event("entities/create", 0, Body("valid", p)) : p \in {SameAsSeed, Another}}
    \cup {Event("contact.update", 0, Body("valid", [p EXCEPT !.id = 1])) :
            p \in {SameAsSeed, SameButCase}}

\* the organization before its first contact
EmptyDb ==
    [SeedDb EXCEPT !.contacts[1] = NoRow, !.phones[1] = <<>>, !.nextContact = 1]

\* the seeded contact without phone, email or website rows
BareDb == [SeedDb EXCEPT !.phones[1] = <<>>]

PairDbs == {SeedDb, EmptyDb, BareDb}

\* the pairs of requests whose inserts fit the ids of the model
PairPlans(d) ==
    {plan \in [Workers -> PairCallers \X PairEvents] :
        d.nextContact - 1
            + Cardinality({w \in Workers : plan[w][2].action = "entities/create"})
            <= MaxContacts}

InitPair ==
    /\ env \in SeededEnvironments
    /\ rateLimitStore = [k \in Keys |-> NoRow]
    /\ accepted = [k \in Keys |-> [t \in 0..MaxTime |-> 0]]
    /\ now = 0
    /\ db \in PairDbs
    /\ pc = "idle"
    /\ req = Event("", 0, NoBody)
    /\ ctx = NoCtx
    /\ client = Idle
    /\ tx = NoTx
    /\ outcome = NoOutcome
    /\ trace = <<>>
    /\ resp = NoResp
    /\ before = db
    /\ api = ApiIdle
    /\ \E plan \in PairPlans(db) :
          workers = [w \in Workers |-> Worker(plan[w][1], plan[w][2], "begin")]

NextPair ==
    \/ PairBegin
    \/ PairSelectActor
    \/ PairUpsertActor
    \/ PairDuplicate
    \/ PairInsert
    \/ PairUpdate
    \/ PairDeleteMethods
    \/ PairInsertMethods
    \/ PairAudit
    \/ PairDetail
    \/ PairCommit

SpecPair == InitPair /\ [][NextPair]_vars

----------------------------------------------------------------------------
(* Two requests on the comments and the contact of one organization, served   *)
(* at the same time: contact.deleteComment, contact.addComment,               *)
(* contact.update and contact.delete, statement by statement                  *)

\* what a transaction has written and not yet committed, comments included
NoRaceWrites ==
    [users       |-> [u \in Subjects |-> NoRow],
     contacts    |-> [k \in ContactIds |-> NoRow],
     inserted    |-> {},
     deleted     |-> [t \in MethodTables |-> [k \in ContactIds |-> {}]],
     added       |-> [t \in MethodTables |-> [k \in ContactIds |-> <<>>]],
     audit       |-> <<>>,
     comments    |-> [m \in CommentIds |-> NoRow],
     softDeleted |-> {},
     removed     |-> 0]

\* what a statement of such a transaction sees: its own comment rows and marks
\* over the committed ones, and a contact it deleted gone with its child rows
seen(d, wr) ==
    LET v == visible(d, wr)
        top == {m \in CommentIds : wr.comments[m] # NoRow}
        last == IF top = {} THEN 0 ELSE CHOOSE m \in top : \A j \in top : j <= m
        c == [v EXCEPT
                !.comments = [m \in CommentIds |->
                    IF wr.comments[m] # NoRow THEN wr.comments[m]
                    ELSE IF m \in wr.softDeleted /\ @[m] # NoRow
                    THEN [@[m] EXCEPT !.deleted = TRUE]
                    ELSE @[m]],
                !.nextComment = IF last >= @ THEN last + 1 ELSE @]
    IN  IF wr.removed = 0 THEN c ELSE deleteContactRow(c, wr.removed)

\* gen_random_uuid() for a comment
freshComment(d, ws) ==
    LET used == {m \in CommentIds : \E o \in Workers : ws[o].writes.comments[m] # NoRow}
        free == {m \in d.nextComment..(MaxComments + 1) : m \notin used}
    IN  CHOOSE m \in free : \A j \in free : m <= j

InProgress(ws, w) == {o \in Workers \ {w} : ws[o].pc \notin {"begin", "done"}}

\* a foreign key check that does not wait for the delete of the referenced row
contactBeingDeletedNever(ws, w, k) == FALSE

\* the contacts row is being deleted by another transaction in progress: the
\* foreign key check of a child insert waits for that transaction
contactBeingDeleted(ws, w, k) == \E o \in InProgress(ws, w) : ws[o].writes.removed = k

\* an update of a comment that never waits for another transaction's row lock
commentLockedNever(ws, d, w, m) == FALSE

\* the comment row is locked by another transaction in progress: by its soft
\* delete, or by the cascade of its delete of the comment's contact
commentLocked(ws, d, w, m) ==
    \E o \in InProgress(ws, w) :
        \/ m \in ws[o].writes.softDeleted
        \/ d.comments[m] # NoRow /\ ws[o].writes.removed = d.comments[m].contact

\* what makes "delete from contacts" wait: another transaction in progress has
\* updated or deleted the row, holds the key-share lock of a child insert that
\* references it, or has locked a child row the cascade is to delete
contactHeld(ws, d, w, k) ==
    \E o \in InProgress(ws, w) :
        \/ ws[o].writes.contacts[k] # NoRow
        \/ ws[o].writes.removed = k
        \/ \E m \in CommentIds :
              ws[o].writes.comments[m] # NoRow /\ ws[o].writes.comments[m].contact = k
        \/ \E m \in ws[o].writes.softDeleted : d.comments[m] # NoRow /\ d.comments[m].contact = k

raceThrown(s, out) ==
    [s EXCEPT !.pc = "done", !.writes = NoRaceWrites, !.outcome = out, !.resp = respond(out)]

\* the first statement of each action's case
firstStatement(event) ==
    CASE event.action = "contact.deleteComment" -> "soft_delete"
      [] event.action \in {"entities/delete", "contact.delete"} -> "delete_contact"
      [] OTHER -> "actor"

\* begin, set_config, then requireRole and the parse of the request
RaceBegin ==
    \E w \in Workers :
        LET s == workers[w]
            allowed == CASE s.event.action \in {"entities/delete", "contact.delete",
                                                 "contact.deleteComment"} -> {"admin"}
                         [] s.event.action = "contact.addComment" -> AllRoles
                         [] OTHER -> {"admin", "creator"}
        IN  /\ s.pc = "begin"
            /\ workers' = [workers EXCEPT ![w] =
                    IF ~requireRole(s.ctx, allowed) THEN raceThrown(s, Forbidden)
                    ELSE IF /\ s.event.action \notin {"entities/delete", "contact.delete"}
                            /\ parseOutcome(s.event) # NoOutcome
                    THEN raceThrown(s, parseOutcome(s.event))
                    ELSE [s EXCEPT !.pc = firstStatement(s.event)]]
            /\ UNCHANGED db
            /\ PairUnchanged

\* getActorUserId of contact.addComment and contact.update: the select, and the
\* insert ... on conflict when the select finds no row
RaceActor ==
    \E w \in Workers :
        LET s == workers[w]
            v == seen(db, s.writes)
            a == getActorUserId(env, Session(s.ctx), v, s.ctx, "none")
        IN  /\ s.pc = "actor"
            /\ ~actorFound(env, Session(s.ctx), v, s.ctx) =>
                    ~subjectLocked(workers, w, s.ctx.userId)
            /\ workers' = [workers EXCEPT ![w] =
                    IF a.aborted THEN raceThrown(s, DbError)
                    ELSE [s EXCEPT !.actor = a.id,
                                   !.writes.users[s.ctx.userId] =
                                        IF a.db.users = v.users THEN @
                                        ELSE a.db.users[s.ctx.userId],
                                   !.pc = IF s.event.action = "contact.addComment"
                                          THEN "exists" ELSE "update"]]
            /\ UNCHANGED db
            /\ PairUnchanged

\* contact.addComment: select unique_id from contacts where unique_id = $1 and
\* organization_id = $2
RaceExists ==
    \E w \in Workers :
        LET s == workers[w]
            v == seen(db, s.writes)
            k == s.event.body.p.contactId
        IN  /\ s.pc = "exists"
            /\ workers' = [workers EXCEPT ![w] =
                    IF loadContactSummary(env, Session(s.ctx), v, s.ctx.orgId, k).found
                    THEN [s EXCEPT !.pc = "insert_comment"]
                    ELSE [s EXCEPT !.outcome = Data(404, "NOT_FOUND", NoData), !.pc = "commit"]]
            /\ UNCHANGED db
            /\ PairUnchanged

\* contact.addComment: insert into contact_comments ..., with the check of
\* contact_id references contacts(unique_id)
RaceInsertComment ==
    \E w \in Workers :
        LET s == workers[w]
            v == seen(db, s.writes)
            k == s.event.body.p.contactId
            m == freshComment(db, workers)
        IN  /\ s.pc = "insert_comment"
            /\ m <= MaxComments
            /\ ~contactBeingDeleted(workers, w, k)
            /\ workers' = [workers EXCEPT ![w] =
                    IF \/ ~Permits(env, Session(s.ctx), "contact_comments", "insert", s.ctx.orgId)
                       \/ v.contacts[k] = NoRow
                    THEN raceThrown(s, DbError)
                    ELSE [s EXCEPT !.id = m,
                                   !.writes.comments[m] =
                                        [org |-> s.ctx.orgId, contact |-> k,
                                         body |-> s.event.body.p.body, archived |-> FALSE,
                                         deleted |-> FALSE, created_by |-> s.actor],
                                   !.pc = "audit"]]
            /\ UNCHANGED db
            /\ PairUnchanged

\* contact.update: update contacts set ... where unique_id = $n and organization_id = $m
RaceUpdate ==
    \E w \in Workers :
        LET s == workers[w]
            v == seen(db, s.writes)
            payload == contactUpsertSchema(s.event.body.p).p
            k == payload.id
            hit == /\ v.contacts[k] # NoRow
                   /\ v.contacts[k].org = s.ctx.orgId
                   /\ Permits(env, Session(s.ctx), "contacts", "select", s.ctx.orgId)
                   /\ Permits(env, Session(s.ctx), "contacts", "update", s.ctx.orgId)
        IN  /\ s.pc = "update"
            /\ ~rowLocked(workers, w, k)
            /\ ~contactBeingDeleted(workers, w, k)
            /\ workers' = [workers EXCEPT ![w] =
                    IF ~hit THEN [s EXCEPT !.outcome = Data(404, "NOT_FOUND", NoData),
                                           !.pc = "commit"]
                    ELSE [s EXCEPT !.id = k,
                                   !.writes.contacts[k] =
                                        contactRow(s.ctx, payload, v.contacts[k].created_by, s.actor),
                                   !.pc = "replace"]]
            /\ UNCHANGED db
            /\ PairUnchanged

\* contact.update: replaceContactMethods, under the row lock of the update
RaceReplaceMethods ==
    \E w \in Workers :
        LET s == workers[w]
            v == seen(db, s.writes)
            payload == contactUpsertSchema(s.event.body.p).p
            r == replaceContactMethods(env, Session(s.ctx), v, s.ctx, s.actor, s.id, payload)
            gone(t) == {v[t][s.id][i] : i \in 1..Len(v[t][s.id])}
                            \ {r.db[t][s.id][i] : i \in 1..Len(r.db[t][s.id])}
            new(t) == SubSeq(r.db[t][s.id], Len(r.db[t][s.id]) - Len(payload[t]) + 1,
                             Len(r.db[t][s.id]))
        IN  /\ s.pc = "replace"
            /\ workers' = [workers EXCEPT ![w] =
                    IF ~r.ok THEN raceThrown(s, DbError)
                    ELSE [s EXCEPT
                            !.writes.deleted = [t \in MethodTables |->
                                                  [@[t] EXCEPT ![s.id] = gone(t)]],
                            !.writes.added = [t \in MethodTables |->
                                                  [@[t] EXCEPT ![s.id] = new(t)]],
                            !.pc = "audit"]]
            /\ UNCHANGED db
            /\ PairUnchanged

\* contact.deleteComment: update contact_comments set deleted_at = now() where
\* id = $1 and organization_id = $2 and deleted_at is null; after a wait for a
\* row lock the condition is evaluated on the committed row
RaceSoftDelete ==
    \E w \in Workers :
        LET s == workers[w]
            v == seen(db, s.writes)
            m == s.event.body.p.commentId
        IN  /\ s.pc = "soft_delete"
            /\ m \in CommentIds => ~commentLocked(workers, db, w, m)
            /\ workers' = [workers EXCEPT ![w] =
                    IF commentHit(env, Session(s.ctx), v, s.ctx, m)
                    THEN [s EXCEPT !.id = m, !.writes.softDeleted = @ \cup {m}, !.pc = "audit"]
                    ELSE [s EXCEPT !.outcome = Data(404, "NOT_FOUND", NoData), !.pc = "commit"]]
            /\ UNCHANGED db
            /\ PairUnchanged

\* contact.delete: delete from contacts where unique_id = $1 and organization_id = $2
RaceDeleteContact ==
    \E w \in Workers :
        LET s == workers[w]
            v == seen(db, s.writes)
            k == s.event.id
            hit == /\ k \in ContactIds
                   /\ v.contacts[k] # NoRow
                   /\ v.contacts[k].org = s.ctx.orgId
                   /\ Permits(env, Session(s.ctx), "contacts", "select", s.ctx.orgId)
                   /\ Permits(env, Session(s.ctx), "contacts", "delete", s.ctx.orgId)
        IN  /\ s.pc = "delete_contact"
            /\ k \in ContactIds => ~contactHeld(workers, db, w, k)
            /\ workers' = [workers EXCEPT ![w] =
                    IF s.event.id = 0 \/ ~isUuidId(s.event.id)
                    THEN [s EXCEPT !.outcome = Data(400, "BAD_REQUEST", NoData), !.pc = "commit"]
                    ELSE IF ~hit
                    THEN [s EXCEPT !.outcome = Data(404, "NOT_FOUND", NoData), !.pc = "commit"]
                    ELSE [s EXCEPT !.id = k, !.writes.removed = k, !.pc = "audit"]]
            /\ UNCHANGED db
            /\ PairUnchanged

raceAuditName(event) ==
    CASE event.action = "contact.deleteComment" -> <<"comments.delete", "contact_comments">>
      [] event.action = "contact.addComment" -> <<"comments.create", "contact_comments">>
      [] event.action \in {"entities/delete", "contact.delete"} -> <<"contacts.delete", "contacts">>
      [] OTHER -> <<"contacts.update", "contacts">>

raceAnswer(e, s, v) ==
    CASE s.event.action = "contact.deleteComment" -> Data(200, "", [deleted |-> TRUE, id |-> s.id])
      [] s.event.action = "contact.addComment" -> Data(201, "", [id |-> s.id, archived |-> FALSE])
      [] s.event.action \in {"entities/delete", "contact.delete"} -> Data(200, "", [deleted |-> TRUE])
      [] OTHER -> Data(200, "", loadContactDetail(e, Session(s.ctx), v, s.ctx.orgId, s.id))

\* writeAuditLog, then what the case returns
RaceAudit ==
    \E w \in Workers :
        LET s == workers[w]
            v == seen(db, s.writes)
            n == raceAuditName(s.event)
            a == writeAuditLog(env, Session(s.ctx), v, s.ctx, n[1], n[2], s.id, "none")
        IN  /\ s.pc = "audit"
            /\ ~actorFound(env, Session(s.ctx), v, s.ctx) =>
                    ~subjectLocked(workers, w, s.ctx.userId)
            /\ workers' = [workers EXCEPT ![w] =
                    IF ~a.ok THEN raceThrown(s, DbError)
                    ELSE [s EXCEPT !.writes.audit = Append(@, a.db.audit[Len(a.db.audit)]),
                                   !.writes.users[s.ctx.userId] =
                                        IF a.db.users = v.users THEN @
                                        ELSE a.db.users[s.ctx.userId],
                                   !.outcome = raceAnswer(env, s, a.db),
                                   !.pc = "commit"]]
            /\ UNCHANGED db
            /\ PairUnchanged

\* withRlsContext: commit, release; handler returns the response
RaceCommit ==
    \E w \in Workers :
        LET s == workers[w]
        IN  /\ s.pc = "commit"
            /\ db' = seen(db, s.writes)
            /\ workers' = [workers EXCEPT ![w] =
                    [s EXCEPT !.pc = "done", !.writes = NoRaceWrites, !.resp = respond(s.outcome)]]
            /\ PairUnchanged

WithPhone == Upsert("Jordan", "Price", "Acme", <<Method("w", "777")>>, <<>>, <<>>)

RaceEvents ==
    {Event("contact.deleteComment", 0, Body("valid", [commentId |-> 1])),
     Event("contact.addComment", 0, Body("valid", [contactId |-> 1, body |-> "hello"])),
     Event("contact.update", 0, Body("valid", [WithPhone EXCEPT !.id = 1])),
     Event("contact.delete", 1, NoBody)}

\* the seeded organization, with and without the admin's user row
RaceDbs ==
    {SeededDb(FALSE, FALSE), [SeededDb(FALSE, FALSE) EXCEPT !.users["s1"] = NoRow]}

\* the pairs of requests whose comment inserts fit the ids of the model
RacePlans(d) ==
    {plan \in [Workers -> PairCallers \X RaceEvents] :
        d.nextComment - 1
            + Cardinality({w \in Workers : plan[w][2].action = "contact.addComment"})
            <= MaxComments}

InitRace ==
    /\ env \in SeededEnvironments
    /\ rateLimitStore = [k \in Keys |-> NoRow]
    /\ accepted = [k \in Keys |-> [t \in 0..MaxTime |-> 0]]
    /\ now = 0
    /\ db \in RaceDbs
    /\ pc = "idle"
    /\ req = Event("", 0, NoBody)
    /\ ctx = NoCtx
    /\ client = Idle
    /\ tx = NoTx
    /\ outcome = NoOutcome
    /\ trace = <<>>
    /\ resp = NoResp
    /\ before = db
    /\ api = ApiIdle
    /\ \E plan \in RacePlans(db) :
          workers = [w \in Workers |->
                        [Worker(plan[w][1], plan[w][2], "begin") EXCEPT !.writes = NoRaceWrites]]

NextRace ==
    \/ RaceBegin
    \/ RaceActor
    \/ RaceExists
    \/ RaceInsertComment
    \/ RaceUpdate
    \/ RaceReplaceMethods
    \/ RaceSoftDelete
    \/ RaceDeleteContact
    \/ RaceAudit
    \/ RaceCommit

SpecRace == InitRace /\ [][NextRace]_vars

----------------------------------------------------------------------------
(* The web client's request(action, init, query, didRetryForAuth)             *)

ApiTokens == {"t1", "t2"}
ApiStatuses == {200, 401, 500}

\* data.error.message of a response: a string, or NULL when there is none
ApiMessages == {"exp claim check failed", "Token EXPIRED", "Unauthorized", NULL}

toLowerCase(m) ==
    CASE m = "Token EXPIRED" -> "token expired"
      [] m = "Unauthorized"  -> "unauthorized"
      [] OTHER               -> m

includesExp(m) == m \in {"exp claim check failed", "token expired"}

\* a retry condition that does not look at didRetryForAuth
retryForAuthAgain(a) ==
    /\ a.response.status = 401
    /\ a.apiAuthTokenProvider
    /\ a.response.message # NULL
    /\ includesExp(toLowerCase(a.response.message))

\* the condition under which request asks the provider for a forced refresh
retryForAuth(a) ==
    /\ ~a.didRetryForAuth
    /\ a.response.status = 401
    /\ a.apiAuthTokenProvider
    /\ a.response.message # NULL
    /\ includesExp(toLowerCase(a.response.message))

ServerUnchanged ==
    UNCHANGED <<env, rateLimitStore, accepted, now, db, pc, req, ctx, client, tx, outcome, trace,
                resp, before, workers>>

\* setApiAuthToken(token)
ApiSetToken ==
    /\ \E token \in ApiTokens \cup {""} : api' = [api EXCEPT !.apiAuthToken = token]
    /\ ServerUnchanged

\* setApiAuthTokenProvider(provider)
ApiSetProvider ==
    /\ \E provider \in BOOLEAN : api' = [api EXCEPT !.apiAuthTokenProvider = provider]
    /\ ServerUnchanged

\* apiClient.<method>(): request(action, init, query) with didRetryForAuth = false
ApiRequest ==
    /\ api.pc \in {"idle", "returned", "rejected"}
    /\ api' = [api EXCEPT !.pc = "provider", !.didRetryForAuth = FALSE, !.sent = 0,
                          !.retries = 0, !.response = NoResponse,
                          !.authToken = api.apiAuthToken]
    /\ ServerUnchanged

\* await apiAuthTokenProvider(false), after let authToken = apiAuthToken
ApiProvider ==
    /\ api.pc = "provider"
    /\ IF ~api.apiAuthTokenProvider
       THEN api' = [api EXCEPT !.pc = "fetch"]
       ELSE \/ \E refreshed \in ApiTokens \cup {""} :
                 api' = IF refreshed # ""
                        THEN [api EXCEPT !.authToken = refreshed, !.apiAuthToken = refreshed,
                                         !.pc = "fetch"]
                        ELSE [api EXCEPT !.pc = "fetch"]
            \/ api' = [api EXCEPT !.pc = "rejected"]
    /\ ServerUnchanged

\* await fetch(...); await response.json()
ApiFetch ==
    /\ api.pc = "fetch"
    /\ \/ \E status \in ApiStatuses, message \in ApiMessages :
            api' = [api EXCEPT !.response = [status |-> status, message |-> message],
                               !.sent = @ + 1, !.pc = "decide"]
       \/ api' = [api EXCEPT !.sent = @ + 1, !.pc = "rejected"]
    /\ ServerUnchanged

\* the if after the response: ask the provider for a forced refresh, or return data
ApiDecide ==
    /\ api.pc = "decide"
    /\ api' = [api EXCEPT !.pc = IF retryForAuth(api) THEN "force" ELSE "returned"]
    /\ ServerUnchanged

\* await apiAuthTokenProvider(true); return request(action, init, query, true)
ApiForce ==
    /\ api.pc = "force"
    /\ \/ \E forced \in ApiTokens \cup {""} :
            api' = IF forced # ""
                   THEN [api EXCEPT !.apiAuthToken = forced, !.authToken = forced,
                                    !.didRetryForAuth = TRUE, !.retries = @ + 1,
                                    !.pc = "provider"]
                   ELSE [api EXCEPT !.pc = "returned"]
       \/ api' = [api EXCEPT !.pc = "rejected"]
    /\ ServerUnchanged

ApiSettles == ApiProvider \/ ApiFetch \/ ApiDecide \/ ApiForce

InitClient == InitWith({e \in Environments : e.pool /\ e.rls}, {SeedDb})

NextClient ==
    \/ ApiSetToken
    \/ ApiSetProvider
    \/ ApiRequest
    \/ ApiProvider
    \/ ApiFetch
    \/ ApiDecide
    \/ ApiForce

\* every promise request awaits (the provider's, fetch's, json's) settles
SpecClient == InitClient /\ [][NextClient]_vars /\ WF_vars(ApiSettles)

----------------------------------------------------------------------------
(* Vocabulary of the properties *)

Done == pc = "done"
ListActions == {"entities/list", "contact.list"}
GetActions == {"entities/get", "contact.get"}
UpdateActions == {"entities/update", "contact.update"}
DeleteActions == {"entities/delete", "contact.delete"}

\* the statements of the runner issued so far, by name
Issued(op) == {i \in 1..Len(trace) : trace[i].op = op}
Succeeded(op) == {i \in Issued(op) : trace[i].ok}
Failed(op) == {i \in Issued(op) : ~trace[i].ok}
Authenticated == ctx # NoCtx

\* the unit of work ran and what it returned or threw is what the handler answered with:
\* the connection served every statement up to the closing commit or rollback
Delivered == Issued("run") # {} /\ Failed("commit") = {} /\ Failed("rollback") = {}

\* the session a later contact.get of the same organization runs under
ReaderSession(orgId) == [sub |-> "reader", role |-> "participant", org |-> orgId]

----------------------------------------------------------------------------
(* C1: tenant isolation of contact.list / contact.get *)

\* C1: every summary contact.list/entities/list returns belongs to the caller's
\* organization, and contact.get/entities/get with the id of a contact of another
\* organization never returns it: the handler answers 404 NOT_FOUND.
TenantIsolation ==
    Done =>
        /\ (req.action \in ListActions /\ resp.ok) =>
              \A item \in resp.data :
                  /\ item.orgId = ctx.orgId
                  /\ db.contacts[item.id] # NoRow
                  /\ db.contacts[item.id].org = ctx.orgId
        /\ (/\ req.action \in GetActions
            /\ Authenticated
            /\ req.id \in ContactIds
            /\ before.contacts[req.id] # NoRow
            /\ before.contacts[req.id].org # ctx.orgId) =>
              /\ ~resp.ok
              /\ Delivered => (resp.status = 404 /\ resp.code = "NOT_FOUND")

\* a caller of o2 asked for the seeded contact of o1 by its id and got 404
TenantIsolationWitness ==
    /\ Done
    /\ req.action = "contact.get"
    /\ req.id = 1
    /\ ctx.orgId = "o2"
    /\ db.contacts[1] # NoRow
    /\ db.contacts[1].org = "o1"
    /\ resp.status = 404

----------------------------------------------------------------------------
(* C2: role-gated mutation *)

\* the role set of each writing action
ActionRoles(action) ==
    CASE action \in {"entities/create", "contact.importCsv", "contact.archiveComment"}
            \cup UpdateActions -> {"admin", "creator"}
      [] action \in DeleteActions \cup {"contact.deleteComment", "users/update-role"} -> {"admin"}
      [] action = "contact.addComment" -> {"admin", "creator", "participant"}
      [] OTHER -> {}

\* C2: the committed database changes only during a request whose caller's role is
\* in the action's role set; a caller outside the set changes nothing and is
\* answered 403 FORBIDDEN.
RoleGatedMutation ==
    /\ db # before => ctx.role \in ActionRoles(req.action)
    /\ (/\ Done
        /\ Authenticated
        /\ ActionRoles(req.action) # {}
        /\ ctx.role \notin ActionRoles(req.action)) =>
            /\ db = before
            /\ Delivered => (resp.status = 403 /\ resp.code = "FORBIDDEN")

\* a participant tried to create a contact
RoleGatedMutationWitness ==
    /\ Done
    /\ ctx.role = "participant"
    /\ req.action = "entities/create"
    /\ req.body.kind = "valid"
    /\ resp.status = 403
    /\ db = before

----------------------------------------------------------------------------
(* C3: the role check precedes payload validation *)

\* C3: a participant calling entities/delete, contact.delete or
\* contact.deleteComment is answered 403 FORBIDDEN whatever the id or body is.
ParticipantAlwaysForbidden ==
    (/\ Done
     /\ ctx.role = "participant"
     /\ req.action \in DeleteActions \cup {"contact.deleteComment"}
     /\ Delivered) =>
        (resp.status = 403 /\ resp.code = "FORBIDDEN")

\* a participant sent contact.deleteComment with a body that is not JSON, and
\* contact.delete with a malformed id
ParticipantAlwaysForbiddenWitness ==
    /\ Done
    /\ ctx.role = "participant"
    /\ resp.status = 403
    /\ \/ req.action = "contact.deleteComment" /\ req.body.kind = "badJson"
       \/ req.action = "contact.delete" /\ req.id = -1

----------------------------------------------------------------------------
(* C4: no database work before authentication *)

\* the token carries what verifyToken needs: a good signature, a subject and an
\* organization id that resolves
CarriesIdentity(token) ==
    /\ token.kind = "valid"
    /\ token.sub # ""
    /\ (env.defaultOrgId \in Orgs \/ token.org_id \in Orgs \/ token.tid \in Orgs)

TokenRead == req.named /\ req.token # NoRow

\* C4: a request that names an action but carries no valid identity acquires no
\* connection, begins no transaction and runs no query; it ends with a failure.
NoWorkBeforeAuth ==
    (TokenRead /\ ~CarriesIdentity(req.token)) =>
        /\ trace = <<>>
        /\ ~client.held
        /\ tx = NoTx
        /\ db = before
        /\ Done /\ ~resp.ok

\* a request without a bearer token was refused
NoWorkBeforeAuthWitness ==
    /\ Done
    /\ req.named
    /\ req.token # NoRow
    /\ req.token.kind = "none"
    /\ ~resp.ok
    /\ trace = <<>>

----------------------------------------------------------------------------
(* C5: authentication failures are answered 401 UNAUTHORIZED *)

\* C5: a request whose token is missing, fails verification, has no subject or
\* resolves to no organization is answered 401 UNAUTHORIZED.
AuthFailureIs401 ==
    (Done /\ TokenRead /\ ~CarriesIdentity(req.token)) =>
        (resp.status = 401 /\ resp.code = "UNAUTHORIZED")

----------------------------------------------------------------------------
(* C6: a request answered ok:false leaves the database unchanged *)

\* C6: after a request answered ok:false the committed database equals the one
\* the request found.
FailedRequestChangesNothing == (Done /\ ~resp.ok) => db = before

----------------------------------------------------------------------------
(* C7: order of the statements of the transaction runner *)

\* every statement of the runner is issued at most once
IssuedOnce == \A i, j \in 1..Len(trace) : trace[i].op = trace[j].op => i = j

\* op2 is issued only directly after op1 succeeded
Follows(op1, op2) ==
    \A j \in Issued(op2) : j > 1 /\ trace[j - 1].op = op1 /\ trace[j - 1].ok

InTransaction == {"begin", "set_config", "run", "commit"}
SomethingThrew == \E i \in 1..Len(trace) : trace[i].op \in InTransaction /\ ~trace[i].ok

\* begin, set the session variables, run the unit of work, commit: each only after
\* the one before it returned; rollback directly after the statement that threw
RunnerOrder ==
    /\ IssuedOnce
    /\ Follows("connect", "begin")
    /\ Follows("begin", "set_config")
    /\ Follows("set_config", "run")
    /\ Follows("run", "commit")
    /\ \A j \in Issued("rollback") :
          j > 1 /\ trace[j - 1].op \in InTransaction /\ ~trace[j - 1].ok

\* C7 as stated: in the order begin, session variables, unit of work, a request
\* issues exactly one of commit or rollback.
ExactlyOneOfCommitOrRollback ==
    /\ RunnerOrder
    /\ (Done /\ Succeeded("connect") # {}) =>
          (Issued("commit") # {}) # (Issued("rollback") # {})

\* C7 amended: in the order begin, session variables, unit of work, commit is issued
\* only after the unit of work returned, rollback is issued exactly when begin, the
\* session setup, the unit of work or the commit threw, and a request ends with
\* exactly one of a commit that succeeded or a rollback.
CommitSucceededOrRollback ==
    /\ RunnerOrder
    /\ (Done /\ Succeeded("connect") # {}) =>
        /\ Issued("begin") # {}
        /\ (Issued("rollback") # {}) <=> SomethingThrew
        /\ (Succeeded("commit") # {}) # (Issued("rollback") # {})
        /\ Succeeded("commit") # {} => Succeeded("run") # {}

\* the commit threw and the runner rolled back: both statements were issued
CommitSucceededOrRollbackWitness ==
    /\ Done
    /\ Failed("commit") # {}
    /\ Issued("rollback") # {}
    /\ Succeeded("run") # {}

----------------------------------------------------------------------------
(* C8: the connection is released exactly once *)

\* C8: a request acquires at most one connection, holds it from connect until the
\* release, and has released it exactly once when it ends, on every path.
ReleasedExactlyOnce ==
    /\ Cardinality(Succeeded("connect")) <= 1
    /\ Cardinality(Issued("release")) <= Cardinality(Succeeded("connect"))
    /\ client.held <=> (Succeeded("connect") # {} /\ Issued("release") = {})
    /\ Done => /\ ~client.held
               /\ Cardinality(Issued("release")) = Cardinality(Succeeded("connect"))

\* the rollback statement itself failed and the connection was still released
ReleasedExactlyOnceWitness ==
    /\ Done
    /\ Failed("rollback") # {}
    /\ Cardinality(Issued("release")) = 1
    /\ ~client.held

----------------------------------------------------------------------------
(* C9: one audit entry per successful mutating action, in the same transaction *)

\* the audit action name of each mutating action
AuditName(action) ==
    CASE action = "entities/create" -> "contacts.create"
      [] action \in UpdateActions -> "contacts.update"
      [] action \in DeleteActions -> "contacts.delete"
      [] action = "contact.importCsv" -> "contacts.csv_import"
      [] action = "contact.addComment" -> "comments.create"
      [] action = "contact.archiveComment" -> "comments.archive"
      [] action = "contact.deleteComment" -> "comments.delete"
      [] action = "users/update-role" -> "users.update_role"
      [] OTHER -> ""

\* the entity the request acted on; an import has no single entity (0)
AuditEntity ==
    CASE req.action = "entities/create" -> before.nextContact
      [] req.action \in UpdateActions -> req.body.p.id
      [] req.action \in DeleteActions -> req.id
      [] req.action = "contact.importCsv" -> 0
      [] req.action = "contact.addComment" -> before.nextComment
      [] req.action \in {"contact.archiveComment", "contact.deleteComment"} -> req.body.p.commentId
      [] req.action = "users/update-role" -> req.body.p.userId

AuditGrowth == Len(db.audit) - Len(before.audit)

\* contacts, their child rows or comments differ from what the request found
DataChanged ==
    \/ db.contacts # before.contacts
    \/ db.phones # before.phones
    \/ db.emails # before.emails
    \/ db.websites # before.websites
    \/ db.comments # before.comments

\* C9: the audit log only grows; a mutating action answered ok:true committed
\* exactly one entry, carrying its action name, entity id, caller and organization;
\* contact or comment data changes only together with that entry; a request that
\* failed or was rolled back adds none.
OneAuditEntryPerMutation ==
    /\ AuditGrowth \in {0, 1}
    /\ SubSeq(db.audit, 1, Len(before.audit)) = before.audit
    /\ DataChanged => AuditGrowth = 1
    /\ AuditGrowth = 1 =>
          /\ AuditName(req.action) # ""
          /\ Succeeded("commit") # {}
          /\ LET entry == db.audit[Len(db.audit)]
             IN  /\ entry.action = AuditName(req.action)
                 /\ entry.entity_id = AuditEntity
                 /\ entry.actor_subject = ctx.userId
                 /\ entry.org = ctx.orgId
    /\ Done =>
          /\ (resp.ok /\ AuditName(req.action) # "") => AuditGrowth = 1
          /\ ~resp.ok => AuditGrowth = 0

\* a contact was created and its entry committed with it
OneAuditEntryPerMutationWitness ==
    /\ Done
    /\ resp.ok
    /\ req.action = "entities/create"
    /\ db.contacts # before.contacts
    /\ AuditGrowth = 1
    /\ db.audit[Len(db.audit)].action = "contacts.create"

----------------------------------------------------------------------------
(* C10: child replacement round trip *)

\* the rows are exactly the entries, each as often as it was submitted
SameEntries(rows, entries) ==
    /\ Len(rows) = Len(entries)
    /\ \A x \in {rows[i] : i \in 1..Len(rows)} \cup {entries[i] : i \in 1..Len(entries)} :
          Cardinality({i \in 1..Len(rows) : rows[i] = x})
              = Cardinality({i \in 1..Len(entries) : entries[i] = x})

\* C10: after a successful contact.update/entities/update, contact.get of that
\* contact returns exactly the phone, email and website entries of the update.
UpdateRoundTrip ==
    (Done /\ resp.ok /\ req.action \in UpdateActions) =>
        LET payload == req.body.p
            detail == loadContactDetail(env, ReaderSession(ctx.orgId), db, ctx.orgId, payload.id)
        IN  /\ detail.found
            /\ SameEntries(detail.phones, payload.phones)
            /\ SameEntries(detail.emails, payload.emails)
            /\ SameEntries(detail.websites, payload.websites)

----------------------------------------------------------------------------
(* C11: duplicate detection on entities/create *)

\* the contacts of the organization the request found that the payload duplicates:
\* same LinkedIn profile URL when one is supplied, or same first and last name and,
\* when an organization name is supplied, the same organization name, all
\* compared case-insensitively
Duplicates(d, orgId, p) ==
    {k \in ContactIds :
        /\ d.contacts[k] # NoRow
        /\ d.contacts[k].org = orgId
        /\ \/ p.linkedInProfileUrl # "" /\ Lower(d.contacts[k].linkedin) = Lower(p.linkedInProfileUrl)
           \/ /\ Lower(d.contacts[k].first) = Lower(p.firstName)
              /\ Lower(d.contacts[k].last) = Lower(p.lastName)
              /\ p.company # "" => Lower(d.contacts[k].company) = Lower(p.company)}

CreateDelivered ==
    /\ Done
    /\ req.action = "entities/create"
    /\ req.body.kind = "valid"
    /\ ctx.role \in {"admin", "creator"}
    /\ Succeeded("run") # {}
    /\ Delivered

\* C11: when no statement of the request fails in the storage engine,
\* entities/create without allowDuplicate that duplicates a contact of the
\* caller's organization is answered 409 DUPLICATE_CONTACT with the id of such a
\* contact and inserts none; 409 is answered in no other case; with allowDuplicate
\* the same request, when it succeeds, has inserted a second contact.
DuplicateGuard ==
    CreateDelivered =>
        LET p == req.body.p
            dup == Duplicates(before, ctx.orgId, p)
        IN  /\ (~p.allowDuplicate /\ dup # {}) =>
                  /\ resp.status = 409
                  /\ resp.code = "DUPLICATE_CONTACT"
                  /\ resp.data.existingContactId \in dup
                  /\ db.contacts = before.contacts
            /\ resp.status = 409 => (~p.allowDuplicate /\ dup # {})
            /\ (p.allowDuplicate /\ dup # {} /\ resp.ok) =>
                  /\ db.contacts[before.nextContact] # NoRow
                  /\ db.contacts[before.nextContact].org = ctx.orgId
                  /\ \A k \in dup : db.contacts[k] = before.contacts[k]

\* a duplicate by LinkedIn URL alone was refused, and a forced duplicate was inserted
DuplicateGuardWitness ==
    /\ CreateDelivered
    /\ Duplicates(before, ctx.orgId, req.body.p) # {}
    /\ \/ /\ req.body.p.linkedInProfileUrl # ""
          /\ resp.status = 409
       \/ /\ req.body.p.allowDuplicate
          /\ resp.ok
          /\ db.contacts[before.nextContact] # NoRow

----------------------------------------------------------------------------
(* Vocabulary of the comment and delete properties *)

\* the handler ran every statement it issued and its answer reached the caller
Answered == Succeeded("run") # {} /\ Delivered

\* what contact.get answers a same-organization caller for the contact, in database d
DetailOf(d, orgId, id) == loadContactDetail(env, ReaderSession(orgId), d, orgId, id)

\* the ids of the comments contact.get lists for any contact of the organization
ListedComments(d, orgId) ==
    {m \in CommentIds : \E k \in ContactIds :
        LET detail == DetailOf(d, orgId, k)
        IN  detail.found /\ \E i \in 1..Len(detail.comments) : detail.comments[i].id = m}

CommentIn(d, orgId, m) == m \in CommentIds /\ d.comments[m] # NoRow /\ d.comments[m].org = orgId

----------------------------------------------------------------------------
(* C12: soft delete of a comment *)

\* C12: after a successful contact.deleteComment the row is still there, marked
\* deleted and otherwise unchanged, and contact.get lists it for no contact;
\* contact.deleteComment on a comment already deleted is answered 404 NOT_FOUND and
\* leaves every row and the audit log as they were.
SoftDeleteComment ==
    (/\ Done
     /\ req.action = "contact.deleteComment"
     /\ req.body.kind = "valid"
     /\ ctx.role = "admin"
     /\ Answered
     /\ CommentIn(before, ctx.orgId, req.body.p.commentId)) =>
        LET m == req.body.p.commentId
        IN  IF before.comments[m].deleted
            THEN /\ resp.status = 404
                 /\ resp.code = "NOT_FOUND"
                 /\ db = before
            ELSE /\ resp.ok
                 /\ db.comments[m] = [before.comments[m] EXCEPT !.deleted = TRUE]
                 /\ m \in ListedComments(before, ctx.orgId)
                 /\ m \notin ListedComments(db, ctx.orgId)

\* a comment was deleted, and deleted again
SoftDeleteCommentWitness ==
    /\ Done
    /\ req.action = "contact.deleteComment"
    /\ req.body.kind = "valid"
    /\ req.body.p.commentId = 1
    /\ resp.status = 404
    /\ db.comments[1] # NoRow
    /\ db.comments[1].deleted
    /\ Len(db.audit) > 0
    /\ db.audit[Len(db.audit)].action = "comments.delete"

----------------------------------------------------------------------------
(* C13: soft-deleted is terminal *)

\* the condition contact.list searches by, comments that are not deleted included
SearchHit(d, k, term) ==
    \/ Lower(d.contacts[k].first) = Lower(term)
    \/ Lower(d.contacts[k].last) = Lower(term)
    \/ Lower(d.contacts[k].company) = Lower(term)
    \/ \E m \in CommentIds :
          /\ d.comments[m] # NoRow
          /\ d.comments[m].contact = k
          /\ ~d.comments[m].deleted
          /\ Lower(d.comments[m].body) = Lower(term)

\* no step changes a soft-deleted comment, other than removing it with its contact
DeletedStaysDeleted ==
    \A m \in CommentIds :
        (db.comments[m] # NoRow /\ db.comments[m].deleted) =>
            \/ db'.comments[m] = db.comments[m]
            \/ db'.comments[m] = NoRow /\ db'.contacts[db.comments[m].contact] = NoRow

\* what the reads and contact.archiveComment show of soft-deleted comments
DeletedIsHidden ==
    /\ \A m \in CommentIds :
          (db.comments[m] # NoRow /\ db.comments[m].deleted) =>
              m \notin ListedComments(db, db.comments[m].org)
    /\ (Done /\ req.action \in ListActions /\ resp.ok /\ req.search # "") =>
          \A item \in resp.data : SearchHit(db, item.id, req.search)
    /\ (/\ Done
        /\ req.action = "contact.archiveComment"
        /\ req.body.kind = "valid"
        /\ ctx.role \in {"admin", "creator"}
        /\ Answered
        /\ CommentIn(before, ctx.orgId, req.body.p.commentId)
        /\ before.comments[req.body.p.commentId].deleted) =>
          /\ resp.status = 404
          /\ resp.code = "NOT_FOUND"
          /\ db = before

\* C13: once a comment is soft-deleted no step clears the mark or changes its
\* archived flag; contact.archiveComment on it is answered 404 NOT_FOUND; it is
\* listed by no contact.get and matched by no contact.list search, archived or not.
SoftDeletedIsTerminal == [](DeletedIsHidden) /\ [][DeletedStaysDeleted]_vars

\* contact.archiveComment was refused for a deleted comment that had been archived
\* before, and a search for its body found nothing
SoftDeletedIsTerminalWitness ==
    /\ Done
    /\ db.comments[1] # NoRow
    /\ db.comments[1].deleted
    /\ db.comments[1].archived
    /\ \/ req.action = "contact.archiveComment" /\ req.body.p.commentId = 1 /\ resp.status = 404
       \/ req.action = "contact.list" /\ req.search = "hello" /\ resp.ok /\ resp.data = {}

----------------------------------------------------------------------------
(* C19: contact.delete removes the contact and its dependents, nothing else *)

ResolvesIn(d, orgId, id) == id \in ContactIds /\ d.contacts[id] # NoRow /\ d.contacts[id].org = orgId

\* C19: a successful contact.delete/entities/delete by an admin removes the contact,
\* its phone, email, website and comment rows, and clears other contacts' reference
\* to it, changing no other contact, child row or comment; for an id that does not
\* resolve in the caller's organization the answer is 404 NOT_FOUND, with no row
\* changed and no audit entry written.
DeleteFrame ==
    (/\ Done
     /\ req.action \in DeleteActions
     /\ ctx.role = "admin"
     /\ req.id > 0
     /\ Answered) =>
        IF ResolvesIn(before, ctx.orgId, req.id)
        THEN /\ resp.ok
             /\ db.contacts[req.id] = NoRow
             /\ db.phones[req.id] = <<>>
             /\ db.emails[req.id] = <<>>
             /\ db.websites[req.id] = <<>>
             /\ \A m \in CommentIds :
                   db.comments[m] = IF before.comments[m] # NoRow /\ before.comments[m].contact = req.id
                                    THEN NoRow ELSE before.comments[m]
             /\ \A k \in ContactIds \ {req.id} :
                   /\ db.phones[k] = before.phones[k]
                   /\ db.emails[k] = before.emails[k]
                   /\ db.websites[k] = before.websites[k]
                   /\ db.contacts[k] =
                        IF before.contacts[k] # NoRow /\ before.contacts[k].referred = req.id
                        THEN [before.contacts[k] EXCEPT !.referred = 0]
                        ELSE before.contacts[k]
        ELSE /\ resp.status = 404
             /\ resp.code = "NOT_FOUND"
             /\ db = before

\* the contact that had a phone, a comment and a referring contact was deleted, and
\* a contact was deleted a second time
DeleteFrameWitness ==
    /\ Done
    /\ req.action = "contact.delete"
    /\ req.id = 1
    /\ db.contacts[1] = NoRow
    /\ db.contacts[2] # NoRow
    /\ db.contacts[2].referred = 0
    /\ db.comments[1] = NoRow
    /\ \/ resp.ok /\ before.contacts[1] # NoRow /\ before.phones[1] # <<>>
       \/ resp.status = 404 /\ before.contacts[1] = NoRow

----------------------------------------------------------------------------
(* C20: contact.addComment *)

\* C20: contact.addComment succeeds only for a contact of the caller's
\* organization; for any other contact id it is answered 404 NOT_FOUND and creates
\* no comment; after it succeeds contact.get lists the new comment first, with
\* archived false, followed by the comments it listed before.
AddCommentNewestFirst ==
    (/\ Done
     /\ req.action = "contact.addComment"
     /\ req.body.kind = "valid"
     /\ Authenticated) =>
        LET k == req.body.p.contactId
            earlier == DetailOf(before, ctx.orgId, k)
            later == DetailOf(db, ctx.orgId, k)
        IN  /\ resp.ok => ResolvesIn(before, ctx.orgId, k)
            /\ ~resp.ok => db.comments = before.comments
            /\ (Answered /\ ~ResolvesIn(before, ctx.orgId, k)) =>
                  resp.status = 404 /\ resp.code = "NOT_FOUND"
            /\ resp.ok =>
                  /\ later.found
                  /\ later.comments =
                        <<[id |-> before.nextComment, body |-> req.body.p.body, archived |-> FALSE]>>
                            \o earlier.comments

\* a participant added a comment to a contact that already had one
AddCommentNewestFirstWitness ==
    /\ Done
    /\ req.action = "contact.addComment"
    /\ ctx.role = "participant"
    /\ resp.ok
    /\ Len(DetailOf(db, ctx.orgId, req.body.p.contactId).comments) = 2
    /\ DetailOf(db, ctx.orgId, req.body.p.contactId).comments[1].body = "again"

----------------------------------------------------------------------------
(* C14, C15: the abuse guard *)

\* the requests of the key accepted at the times in the set
RECURSIVE AcceptedIn(_, _)
AcceptedIn(key, times) ==
    IF times = {} THEN 0
    ELSE LET t == CHOOSE x \in times : TRUE
         IN  accepted[key][t] + AcceptedIn(key, times \ {t})

\* the key's current window: from its last reset to resetAt
CurrentWindow(key) ==
    {t \in 0..MaxTime :
        rateLimitStore[key].resetAt - RateLimitWindowMs <= t /\ t <= rateLimitStore[key].resetAt}

CeilingPerWindow ==
    \A key \in Keys :
        rateLimitStore[key] # NoRow =>
            AcceptedIn(key, CurrentWindow(key)) <= env.rateLimitMax

\* a request rateLimit does not let through ends at once with 429, nothing else read or done
RejectedAtOnce ==
    (pc \in {"idle", "done"} /\ now' = now /\ accepted' = accepted) =>
        /\ pc' = "done"
        /\ resp'.status = 429
        /\ resp'.code = "RATE_LIMITED"
        /\ ~req'.named
        /\ req'.token = NoRow
        /\ ctx' = NoCtx
        /\ trace' = <<>>
        /\ ~client'.held
        /\ db' = db

\* C14: between two resets of a key's window at most the ceiling of requests of
\* that key are accepted; every further request is answered 429 RATE_LIMITED before
\* the action or the token is read and before any database work.
RateLimitCeiling == [](CeilingPerWindow) /\ [][RejectedAtOnce]_vars

\* after a reset of its window a key filled the new window and was refused again
RateLimitCeilingWitness ==
    /\ Done
    /\ resp.status = 429
    /\ \E key \in Keys :
          /\ rateLimitStore[key] # NoRow
          /\ rateLimitStore[key].resetAt > RateLimitWindowMs
          /\ rateLimitStore[key].count = env.rateLimitMax
          /\ AcceptedIn(key, 0..MaxTime) > env.rateLimitMax

\* C15: for every key, every interval as long as the window holds at most the
\* ceiling of accepted requests of that key.
SlidingWindow ==
    \A key \in Keys, a \in 0..MaxTime :
        AcceptedIn(key, {t \in 0..MaxTime : a <= t /\ t < a + RateLimitWindowMs})
            <= env.rateLimitMax

----------------------------------------------------------------------------
(* C16, C17, C18: where an identity comes from *)

IssuerConfigured == env.jwks /\ env.azureIssuer /\ env.azureAudience
BypassAllowed == ~env.production /\ env.devFlag /\ ~IssuerConfigured
TokenVerified == req.named /\ req.token # NoRow /\ req.token.kind = "valid" /\ req.token.sub # ""

\* C16: an identity is the local-development one only outside production, with a
\* dev flag set and the issuer configuration incomplete; in every other
\* configuration an identity is the subject of a verified bearer token.
DevBypassOnly ==
    Authenticated =>
        IF BypassAllowed
        THEN /\ ctx.userId = env.devUserSub
             /\ ctx.orgId = env.defaultOrgId
             /\ env.defaultOrgId \in Orgs
        ELSE /\ IssuerConfigured
             /\ TokenVerified
             /\ ctx.userId = req.token.sub

\* a request without a token got the development identity, and the same flags in
\* production got none
DevBypassOnlyWitness ==
    /\ env.devFlag
    /\ ~env.jwks
    /\ req.named
    /\ req.token # NoRow
    /\ req.token.kind = "none"
    /\ \/ ~env.production /\ Authenticated /\ ctx.userId = env.devUserSub
       \/ env.production /\ Done /\ ~Authenticated /\ ~resp.ok

\* the role a roles claim stands for
RoleOfClaim(roles) ==
    IF roles.isArray /\ "admin" \in roles.items THEN "admin"
    ELSE IF roles.isArray /\ "creator" \in roles.items THEN "creator"
    ELSE "participant"

\* C17: the caller's role is admin if the roles claim is an array containing
\* "admin", else creator if it contains "creator", else participant; a missing,
\* non-array or unrecognized claim yields participant.
RoleFromClaim ==
    Authenticated =>
        ctx.role = IF BypassAllowed THEN RoleOfClaim([isArray |-> TRUE, items |-> {env.devUserRole}])
                   ELSE RoleOfClaim(req.token.roles)

\* a roles claim that is the string "admin", and one listing only an unknown role,
\* made a participant
RoleFromClaimWitness ==
    /\ Authenticated
    /\ ~BypassAllowed
    /\ ctx.role = "participant"
    /\ \/ ~req.token.roles.isArray /\ req.token.roles.items = {"admin"}
       \/ req.token.roles.isArray /\ req.token.roles.items = {"reader"}

\* the organization the request resolves to, "" when there is none; claims count
\* after surrounding whitespace is removed
ResolvedOrg ==
    IF env.defaultOrgId \in Orgs THEN env.defaultOrgId
    ELSE IF Trim(req.token.org_id) \in Orgs THEN Trim(req.token.org_id)
    ELSE IF Trim(req.token.tid) \in Orgs THEN Trim(req.token.tid)
    ELSE ""

\* C18: the caller's organization is the configured default when it is a UUID,
\* else the token's org_id when it is one, else the token's tid when it is one;
\* with none of them a UUID the request fails.
OrgResolution ==
    (IssuerConfigured /\ TokenVerified) =>
        IF ResolvedOrg = ""
        THEN ~Authenticated /\ Done /\ ~resp.ok
        ELSE Authenticated /\ ctx.orgId = ResolvedOrg

\* a configured default won over the token's org_id, a tid was used when org_id was
\* no UUID, and a token with no usable organization was refused
OrgResolutionWitness ==
    /\ IssuerConfigured
    /\ TokenVerified
    /\ \/ env.defaultOrgId = "o1" /\ req.token.org_id = "o2" /\ ctx.orgId = "o1"
       \/ /\ env.defaultOrgId = "not-a-uuid"
          /\ req.token.org_id = "not-a-uuid"
          /\ req.token.tid = "o1"
          /\ ctx.orgId = "o1"
       \/ env.defaultOrgId = "" /\ ResolvedOrg = "" /\ Done /\ ~resp.ok

----------------------------------------------------------------------------
(* C21: invalid input is answered 400 *)

BodyActions ==
    {"users/update-role", "entities/create", "entities/update", "contact.update",
     "contact.importCsv", "contact.addComment", "contact.archiveComment", "contact.deleteComment"}

\* the request passed the role check and its body or id query parameter is not
\* what the action accepts
InvalidInput ==
    /\ Authenticated
    /\ ctx.role \in ActionRoles(req.action)
    /\ \/ req.action \in BodyActions /\ req.body.kind # "valid"
       \/ req.action \in GetActions \cup DeleteActions /\ (req.id = 0 \/ ~isUuidId(req.id))

\* C21: a request whose body is not valid JSON, or whose body or query parameter
\* does not match the action's schema, is answered 400 with a validation or
\* bad-request code whenever the connection served every statement.
InvalidInputIs400 ==
    (Done /\ Delivered /\ InvalidInput) =>
        (resp.status = 400 /\ resp.code \in {"VALIDATION_ERROR", "BAD_REQUEST"})

----------------------------------------------------------------------------
(* C22: referred-by-contact stays inside the organization *)

\* C22: every contact's referred-by-contact reference is null or the id of a
\* contact of the same organization.
ReferenceInOrganization ==
    \A k \in ContactIds :
        db.contacts[k] # NoRow =>
            \/ db.contacts[k].referred = 0
            \/ /\ db.contacts[k].referred \in ContactIds
               /\ db.contacts[db.contacts[k].referred] # NoRow
               /\ db.contacts[db.contacts[k].referred].org = db.contacts[k].org

----------------------------------------------------------------------------
(* C24: comment rows are not removed by the comment actions *)

\* every comment row of the committed database is still there after the step
CommentRowsKept ==
    \A m \in CommentIds : db.comments[m] # NoRow => db'.comments[m] # NoRow

\* the comment rows a step removes belong to the contact a contact.delete of the
\* current request removed
RemovedWithContact ==
    \A m \in CommentIds :
        (db.comments[m] # NoRow /\ db'.comments[m] = NoRow) =>
            /\ req.action \in DeleteActions
            /\ req.id = db.comments[m].contact
            /\ db'.contacts[req.id] = NoRow

\* the original statement: no step removes a comment row
CommentsNeverRemoved == [][CommentRowsKept]_vars

\* a successful contact.deleteComment leaves the row in place, marked deleted and
\* otherwise unchanged
DeleteCommentKeepsRow ==
    (/\ Done
     /\ req.action = "contact.deleteComment"
     /\ req.body.kind = "valid"
     /\ resp.ok) =>
        LET m == req.body.p.commentId
        IN  /\ before.comments[m] # NoRow
            /\ db.comments[m] = [before.comments[m] EXCEPT !.deleted = TRUE]

\* C24: contact.deleteComment keeps the comment row and only marks it deleted; a
\* comment row leaves the database only together with its contact, through the
\* cascade of a contact.delete.
CommentsRemovedOnlyWithContact == [](DeleteCommentKeepsRow) /\ [][RemovedWithContact]_vars

\* a comment was soft-deleted by contact.deleteComment and its row is still stored
CommentsRemovedOnlyWithContactWitness ==
    /\ Done
    /\ req.action = "contact.deleteComment"
    /\ req.body.kind = "valid"
    /\ resp.ok
    /\ ~before.comments[req.body.p.commentId].deleted
    /\ db.comments[req.body.p.commentId].deleted

----------------------------------------------------------------------------
(* C25: the audit log only grows *)

\* the entries of the committed audit log are, after the step, still there and unchanged
AuditEntriesKept ==
    /\ Len(db'.audit) >= Len(db.audit)
    /\ SubSeq(db'.audit, 1, Len(db.audit)) = db.audit

\* C25: no action updates or removes an audit entry: the committed audit log of
\* every later state extends the committed audit log of every earlier state.
AuditLogOnlyGrows == [][AuditEntriesKept]_vars

\* two requests in a row were audited: the second found the first one's entry and
\* left it in place
AuditLogOnlyGrowsWitness ==
    /\ Done
    /\ before.audit # <<>>
    /\ Len(db.audit) > Len(before.audit)
    /\ SubSeq(db.audit, 1, Len(before.audit)) = before.audit

----------------------------------------------------------------------------
(* C26: blank phone/email/website entries *)

Blank(entry) == Trim(entry.value) = ""
NotBlank(entry) == ~Blank(entry)
HasBlank(p) ==
    \E entries \in {p.phones, p.emails, p.websites} :
        \E i \in 1..Len(entries) : Blank(entries[i])

\* C26: a create or update whose phone/email/website entries include one with a
\* value that is empty after trimming is not rejected for it, and when it
\* succeeds exactly the other submitted entries are stored.
BlankEntriesSkipped ==
    (/\ Done
     /\ Delivered
     /\ req.action \in {"entities/create"} \cup UpdateActions
     /\ ctx.role \in ActionRoles(req.action)
     /\ req.body.kind = "valid"
     /\ HasBlank(req.body.p)) =>
        /\ resp.code # "VALIDATION_ERROR"
        /\ resp.ok =>
              LET id == resp.data.id
                  detail == loadContactDetail(env, ReaderSession(ctx.orgId), db, ctx.orgId, id)
              IN  /\ detail.found
                  /\ SameEntries(detail.phones, SelectSeq(req.body.p.phones, NotBlank))
                  /\ SameEntries(detail.emails, SelectSeq(req.body.p.emails, NotBlank))
                  /\ SameEntries(detail.websites, SelectSeq(req.body.p.websites, NotBlank))

----------------------------------------------------------------------------
(* C27: at most one contact per name and organization name *)

SameName(r1, r2) ==
    /\ r1.org = r2.org
    /\ Lower(r1.first) = Lower(r2.first)
    /\ Lower(r1.last) = Lower(r2.last)
    /\ Lower(r1.company) = Lower(r2.company)

\* C27: when no request carries the override flag, no two contacts of one
\* organization have case-insensitively equal first name, last name and
\* organization name.
AtMostOneDuplicate ==
    \A j, k \in ContactIds :
        (j # k /\ db.contacts[j] # NoRow /\ db.contacts[k] # NoRow) =>
            ~SameName(db.contacts[j], db.contacts[k])

----------------------------------------------------------------------------
(* C23: one users row per caller, created lazily *)

Finished(w) == workers[w].pc = "done" /\ workers[w].ctx # NoCtx
Served(w) == Finished(w) /\ workers[w].resp.ok

\* C23: once a mutating request of caller (s, o) has succeeded, the users row of
\* (s, o) exists and the request's audit entry names it; requests of the same
\* caller that run at the same time, the first ones included, all go through on
\* the one row the unique subject admits, none of them failing on it.
OneUserRowPerCaller ==
    /\ \A w \in Workers :
          Served(w) =>
              /\ db.users[workers[w].ctx.userId] # NoRow
              /\ db.users[workers[w].ctx.userId].org = workers[w].ctx.orgId
    /\ \A w \in Workers : Finished(w) => workers[w].resp.code # "DATABASE_ERROR"
    /\ \A i \in 1..Len(db.audit) :
          /\ db.audit[i].actor_user_id = db.audit[i].actor_subject
          /\ db.users[db.audit[i].actor_subject] # NoRow

\* two first requests of one caller at the same time: one has inserted the users
\* row and not yet committed, the other has found no row and is about to insert
OneUserRowPerCallerWitness ==
    /\ workers[1].ctx = workers[2].ctx
    /\ before.users[workers[1].ctx.userId] = NoRow
    /\ \E w \in Workers :
          /\ workers[w].pc = "upsert_actor"
          /\ subjectLocked(workers, w, workers[w].ctx.userId)

----------------------------------------------------------------------------
(* C28: concurrent updates of one contact *)

BothUpdate ==
    /\ \A w \in Workers : Finished(w) /\ workers[w].event.action \in UpdateActions
    /\ workers[1].event.body.p.id = workers[2].event.body.p.id
    /\ before.contacts[workers[1].event.body.p.id] # NoRow

\* the committed contact and its collections are what worker w submitted
IsSubmissionOf(w) ==
    LET c == workers[w].ctx
        payload == contactUpsertSchema(workers[w].event.body.p).p
        id == payload.id
        stored(table, rows) == methodRows(env, ReaderSession(c.orgId), table, rows, c.orgId)
    IN  /\ db.contacts[id] = contactRow(c, payload, before.contacts[id].created_by, c.userId)
        /\ SameEntries(stored("contact_phone_numbers", db.phones[id]), payload.phones)
        /\ SameEntries(stored("contact_emails", db.emails[id]), payload.emails)
        /\ SameEntries(stored("contact_websites", db.websites[id]), payload.websites)

\* the delete policies of the phone, email and website tables admit the caller
MayReplace(w) == ~env.rls \/ workers[w].ctx.role = "admin"

----------------------------------------------------------------------------
(* C30: concurrent creates of the same contact *)

BothCreateSame ==
    /\ \A w \in Workers : Finished(w) /\ workers[w].event.action = "entities/create"
    /\ workers[1].ctx.orgId = workers[2].ctx.orgId
    /\ workers[1].event.body.p = workers[2].event.body.p
    /\ ~workers[1].event.body.p.allowDuplicate

\* C30: of two entities/create requests without override for the same names in
\* one organization that run at the same time, at most one inserts a contact and
\* the other is answered 409 DUPLICATE_CONTACT.
OneOfTwoCreates ==
    BothCreateSame =>
        \E w \in Workers :
            /\ workers[w].resp.status = 409
            /\ workers[w].resp.code = "DUPLICATE_CONTACT"

----------------------------------------------------------------------------
(* C29: the archived marker *)

ArchivedVisible(d, m) == d.comments[m] # NoRow /\ ~d.comments[m].deleted /\ d.comments[m].archived
UnarchivedVisible(d, m) ==
    d.comments[m] # NoRow /\ ~d.comments[m].deleted /\ ~d.comments[m].archived

\* on every step of the layer, whichever request it serves, a stored comment
\* that is archived is archived afterwards too, unless its row is gone: no
\* request reaches archived = false again
ArchivedStaysArchived ==
    [][\A m \in CommentIds :
          (db.comments[m] # NoRow /\ db.comments[m].archived) =>
              (db'.comments[m] = NoRow \/ db'.comments[m].archived)]_vars

\* C29: the archived marker is reversible. contact.archiveComment is the one
\* action of the layer that sets the marker, so the way back goes through it:
\* when an admin or creator asks it for a comment that is archived and not
\* deleted and is answered 200, the comment is visible with archived = false.
ArchiveIsReversible ==
    (/\ Done
     /\ req.action = "contact.archiveComment"
     /\ resp.ok
     /\ ctx.role \in {"admin", "creator"}
     /\ ArchivedVisible(before, req.body.p.commentId))
        => UnarchivedVisible(db, req.body.p.commentId)

----------------------------------------------------------------------------
(* C31: the router's role check against the row-level policies *)

WriteActions ==
    {"entities/create", "contact.importCsv", "contact.archiveComment", "contact.addComment",
     "contact.deleteComment", "users/update-role"} \cup UpdateActions \cup DeleteActions

\* the unit of work of the request in hand, run on the database the request
\* found, with every statement served, under policies that bind or do not
UnitOfWork(binding) ==
    handleAction([env EXCEPT !.rls = binding],
                 [sub |-> ctx.userId, role |-> ctx.role, org |-> ctx.orgId],
                 before, ctx, req, "none")

\* C31: when the router admits the caller's role for a write action, the
\* row-level policies reject none of the handler's statements and filter none
\* of its writes: under binding policies the unit of work returns what it
\* returns, and leaves the rows it leaves, when no policy applies.
PoliciesAdmitRouterWrites ==
    (/\ Done
     /\ Delivered
     /\ env.rls
     /\ req.action \in WriteActions
     /\ ctx.role \in ActionRoles(req.action)) =>
        /\ UnitOfWork(TRUE).out.kind = UnitOfWork(FALSE).out.kind
        /\ UnitOfWork(TRUE).db = UnitOfWork(FALSE).db

----------------------------------------------------------------------------
(* C32: lazy user creation and the rows of other organizations *)

ForeignUserRowsKept ==
    \A u \in Subjects :
        (/\ Authenticated
         /\ db.users[u] # NoRow
         /\ db.users[u].org # ctx.orgId) => db'.users[u] = db.users[u]

\* C32: a request never changes a user row that belongs to an organization other
\* than its caller's: resolving the actor finds the caller's row, inserts one
\* in the caller's organization or fails, and leaves the organization and role
\* of every row of another organization as they were.
LazyCreationKeepsForeignRows == [][ForeignUserRowsKept]_vars

----------------------------------------------------------------------------
(* C33: a lazy insert of the caller's user row that fails *)

\* the unit of work of the request in hand, run on the database the request
\* found, when the insert of the caller's user row is the one statement that fails
WithFailedLazyInsert ==
    handleAction(env, Session(ctx), before, ctx, req, "lazyUser")

\* C33: when the lazy insert of the caller's user row fails, the action still
\* completes and commits: a write the router admits, which succeeds when every
\* statement is served, returns successfully too when only that insert fails,
\* and its audit entry carries a null actor user id and the caller's subject.
LazyInsertFailureTolerated ==
    (/\ Done
     /\ Delivered
     /\ req.action \in WriteActions
     /\ ctx.role \in ActionRoles(req.action)
     /\ ~actorFound(env, Session(ctx), before, ctx)
     /\ UnitOfWork(FALSE).out.kind = "returned"
     /\ UnitOfWork(FALSE).out.status < 400) =>
        LET r == WithFailedLazyInsert
        IN  /\ r.out.kind = "returned"
            /\ r.out.status < 400
            /\ Len(r.db.audit) = Len(before.audit) + 1
            /\ r.db.audit[Len(r.db.audit)].actor_user_id = NULL
            /\ r.db.audit[Len(r.db.audit)].actor_subject = ctx.userId

----------------------------------------------------------------------------
(* C34: the role the router enforces and the role stored for the caller *)

\* C34: the role reported by `me` for a caller is the role requireRole uses for
\* that same request, so a role an admin stored with users/update-role is the
\* role the user's later requests are authorized with.
ReportedRoleIsEnforcedRole ==
    (/\ Done
     /\ Delivered
     /\ req.action = "me"
     /\ resp.ok) => resp.data.role = ctx.role

----------------------------------------------------------------------------
(* C35: the audit entry of users/update-role *)

\* C35: users/update-role records a users.update_role entry only when a user row
\* of the caller's organization was updated; when the named user id matches no
\* row there, the answer says so and the audit log has not grown.
UpdateRoleAuditsOnlyUpdates ==
    (/\ Done
     /\ Delivered
     /\ req.action = "users/update-role"
     /\ resp.ok
     /\ ~resp.data.updated) => AuditGrowth = 0

----------------------------------------------------------------------------
(* C36: two contact.deleteComment requests for one comment *)

BothDeleteComment ==
    /\ \A w \in Workers :
          /\ workers[w].pc = "done"
          /\ workers[w].event.action = "contact.deleteComment"
          /\ workers[w].event.body.p.commentId = 1
          /\ workers[w].ctx.role = "admin"
          /\ workers[w].ctx.orgId = before.comments[1].org
    /\ ~before.comments[1].deleted

DeleteEntries(m) ==
    {i \in 1..Len(db.audit) :
        /\ db.audit[i].action = "comments.delete"
        /\ db.audit[i].entity_id = m
        /\ i > Len(before.audit)}

\* C36: when two contact.deleteComment requests of admins for the same visible
\* comment are served at the same time, one is answered 200 and the other 404
\* NOT_FOUND, and one comments.delete audit entry is committed for the comment.
OneDeleteCommentWins ==
    BothDeleteComment =>
        /\ \E w \in Workers :
              /\ workers[w].resp.status = 200
              /\ \A o \in Workers \ {w} :
                    workers[o].resp.status = 404 /\ workers[o].resp.code = "NOT_FOUND"
        /\ Cardinality(DeleteEntries(1)) = 1
        /\ db.comments[1].deleted

OneDeleteCommentWinsWitness ==
    /\ BothDeleteComment
    /\ workers[2].resp.status = 200
    /\ workers[1].resp.status = 404
    /\ db.comments[1].deleted

----------------------------------------------------------------------------
(* C37: child rows and comments of a contact under concurrent requests *)

MethodRowsOf(d, k) ==
    UNION {{d[t][k][i] : i \in 1..Len(d[t][k])} : t \in MethodTables}

\* C37: in every committed state, every phone, email, website and comment row
\* references a contact that exists, in the row's own organization, whatever
\* the interleaving of contact.addComment, contact.update and contact.delete.
ChildRowsHaveTheirContact ==
    /\ \A k \in ContactIds :
          \A r \in MethodRowsOf(db, k) :
              db.contacts[k] # NoRow /\ db.contacts[k].org = r.org
    /\ \A m \in CommentIds :
          db.comments[m] # NoRow =>
              /\ db.contacts[db.comments[m].contact] # NoRow
              /\ db.contacts[db.comments[m].contact].org = db.comments[m].org

\* a contact.addComment that found the contact, then lost the race with the
\* committed contact.delete: its insert failed and nothing of it is stored
ChildRowsHaveTheirContactWitness ==
    /\ \A w \in Workers : workers[w].pc = "done"
    /\ \E w \in Workers :
          /\ workers[w].event.action = "contact.addComment"
          /\ workers[w].resp.status = 500
          /\ \E o \in Workers \ {w} :
                /\ workers[o].event.action = "contact.delete"
                /\ workers[o].resp.status = 200
    /\ db.contacts[1] = NoRow
    /\ \A m \in CommentIds : db.comments[m] = NoRow

----------------------------------------------------------------------------
(* C38: the identity a pooled connection carries *)

InsideTransaction == pc \in {"run", "commit", "rollback"}

\* C38: the subject, role and organization settings of a request last for its
\* transaction only: while the unit of work runs the connection carries the
\* settings of the request in hand, and once the transaction has ended, and
\* whenever a later request takes the connection, it carries none.
IdentityEndsWithTransaction ==
    /\ pc \in {"run", "commit"} => client.sess = Session(ctx)
    /\ ~InsideTransaction => client.sess = NoSession

\* a second caller's unit of work about to run on the connection that served
\* the first caller's committed request
IdentityEndsWithTransactionWitness ==
    /\ pc = "run"
    /\ ctx.userId = "s2"
    /\ client.sess = Session(ctx)
    /\ \E i \in 1..Len(db.audit) : db.audit[i].actor_subject = "s1"

----------------------------------------------------------------------------
(* C39: rejected requests and the window of a key *)

\* a request is received on this step: the clock stands and the limiter is asked
Received == pc \in {"idle", "done"} /\ now' = now /\ pc' \in {"done", "verify"}
Rejected == Received /\ resp'.status = 429
ReceivedKey == rateLimitKey(req')

RejectedKeepsStore == Rejected => rateLimitStore' = rateLimitStore

FirstAfterResetAccepted ==
    (/\ Received
     /\ rateLimitStore[ReceivedKey] # NoRow
     /\ now > rateLimitStore[ReceivedKey].resetAt) =>
        /\ resp'.status # 429
        /\ rateLimitStore'[ReceivedKey] = [count |-> 1, resetAt |-> now + RateLimitWindowMs]

OtherKeysKept ==
    Received => \A k \in Keys \ {ReceivedKey} : rateLimitStore'[k] = rateLimitStore[k]

\* C39: a rejected request leaves the counter and the reset time of its key as
\* they were, the first request of a key after its reset time is accepted and
\* starts the count at 1 again, and a request changes the entry of no other key.
RejectionsDoNotProlong ==
    [][RejectedKeepsStore /\ FirstAfterResetAccepted /\ OtherKeysKept]_vars

\* key a used up its first window at time 0 and, after the reset time, has its
\* first request of a new window accepted, while key local has an entry too
RejectionsDoNotProlongWitness ==
    /\ accepted["a"][0] = RateLimitMax
    /\ now = MaxTime
    /\ rateLimitStore["a"] = [count |-> 1, resetAt |-> now + RateLimitWindowMs]
    /\ rateLimitStore["local"] # NoRow
    /\ pc = "done"
    /\ req.xff = "a"

----------------------------------------------------------------------------
(* C40: the retry of the web client's request *)

ApiCalling == api.pc \in {"provider", "fetch", "decide", "force"}
ApiFinished == api.pc \in {"returned", "rejected"}

AtMostTwoRequests == api.sent <= 2 /\ api.retries <= 1

\* the forced refresh is asked for only on the first response, when it is a 401
\* whose message contains "exp" (in any letter case) and a provider is installed
RefreshOnlyOnExpiry ==
    (api.pc = "decide" /\ api'.pc = "force") =>
        /\ ~api.didRetryForAuth
        /\ api.sent = 1
        /\ api.response.status = 401
        /\ api.response.message # NULL
        /\ includesExp(toLowerCase(api.response.message))
        /\ api.apiAuthTokenProvider

\* the call is made again only after a forced refresh that returned a token
RetryOnlyWithToken ==
    api'.retries > api.retries =>
        /\ api.pc = "force"
        /\ api.retries = 0
        /\ api'.apiAuthToken \in ApiTokens
        /\ api'.didRetryForAuth

\* C40: a call of request sends at most two HTTP requests and ends: it is made
\* again once at most, only when the first response is a 401 whose message
\* contains "exp", a provider is installed and its forced refresh returned a
\* token, and the second attempt is never followed by a third.
RetriesOnceAndTerminates ==
    /\ [](AtMostTwoRequests)
    /\ [][RefreshOnlyOnExpiry /\ RetryOnlyWithToken]_vars
    /\ (ApiCalling ~> ApiFinished)

\* the second attempt was answered 401 with an expiry message too, and returned
RetriesOnceAndTerminatesWitness ==
    /\ api.pc = "returned"
    /\ api.sent = 2
    /\ api.retries = 1
    /\ api.didRetryForAuth
    /\ api.response.status = 401
    /\ api.response.message = "Token EXPIRED"
    /\ api.apiAuthTokenProvider

====
